---- MODULE Spec2Model ----
(***************************************************************************)
(* Row-level-security model of the storefront backend (supabase/rls.sql)   *)
(* and of the client calls that reach it (src/App.jsx).                    *)
(*                                                                         *)
(* The database state is the tables auth.users, public.profiles,           *)
(* public.orders, public.products, public.categories and storage.objects.  *)
(* Every request is made by a caller: an identity of auth.users            *)
(* (auth.uid() = its id, database role "authenticated") or the anonymous   *)
(* caller (auth.uid() is null, database role "anon").  The variable last   *)
(* is the request that was served last together with its response, and     *)
(* sessions holds the browser sessions that run getUserRole.  app and      *)
(* front are the state of the App and Storefront components of each        *)
(* browser.                                                                *)
(*                                                                         *)
(* The email column of profiles is left out: no policy reads it.  A        *)
(* statement that fails on the unique(email) constraint changes nothing    *)
(* and is the same as a statement that was not issued.                     *)
(***************************************************************************)
EXTENDS Integers, FiniteSets, Sequences, Bags, TLC

VARIABLES users, profiles, orders, products, categories, objects, sessions, last,
          app, front

vars == <<users, profiles, orders, products, categories, objects, sessions, last, app, front>>

\* ------------------------------------------------------------------ bounds
MaxIds == 3
MaxOrders == 1
MaxParties == 2
MaxProducts == 1
MaxObjects == 1
MaxSessions == 2
MaxLookups == 2
MaxCart == 2

\* --------------------------------------------------------------- constants
Anon == 0
InitialAdmin == 1

Ids == 1..MaxIds
Callers == Ids \cup {Anon}
OrderIds == 1..MaxOrders
ProductIds == 1..MaxProducts
ObjectNames == 1..MaxObjects
SessionIds == 1..MaxSessions

ROLE_USER == "user"
ROLE_ADMIN == "admin"
Roles == {ROLE_USER, ROLE_ADMIN}
NoRole == "none"

ORDER_STATUSES == <<"Placed", "Processing", "Shipped", "Delivered", "Cancelled">>
StatusSet == {ORDER_STATUSES[i] : i \in 1..Len(ORDER_STATUSES)}

SeedCategories == {"Sneakers", "T-Shirts", "Watches", "Bags"}
CategoryNames == SeedCategories \cup {"Caps", "caps"}

ProductImagesBucket == "product-images"
Buckets == {ProductImagesBucket, "avatars"}

\* The values of VITE_SUPABASE_PRODUCT_IMAGE_BUCKET a deployment may set; "" is
\* the variable left unset.
EnvBuckets == {""} \cup Buckets

\* const PRODUCT_IMAGE_BUCKET = import.meta.env.... || "product-images".
PRODUCT_IMAGE_BUCKET(env) == IF env = "" THEN "product-images" ELSE env

\* ------------------------------------------------------------ table access
\* public.profiles is a bag of rows: the primary key, not the representation,
\* is what keeps an identity from having two rows.
Rows(ps) == BagToSet(ps)

AddRow(ps, row) == ps (+) SetToBag({row})

DelRows(ps, rows) == [r \in DOMAIN ps \ rows |-> ps[r]]

ProfileOf(ps, id) == {p \in Rows(ps) : p.id = id}

HasProfile(ps, id) == ProfileOf(ps, id) # {}

\* The role stored for id, NoRole when id has no profile row.
StoredRole(ps, id) ==
  IF HasProfile(ps, id) THEN (CHOOSE p \in ProfileOf(ps, id) : TRUE).role ELSE NoRole

Authenticated(c) == c # Anon

\* ---------------------------------------------------------------- policies
\* public.is_admin(): security definer, reads profiles without its policies.
\* Variant: fail-open, "not exists (... role = 'user')": whoever is not known
\* to be a 'user' counts as an admin.
is_admin_unless_user(ps, c) == ~\E p \in Rows(ps) : p.id = c /\ p.role = ROLE_USER

is_admin(ps, c) == \E p \in Rows(ps) : p.id = c /\ p.role = ROLE_ADMIN

profiles_select_self_or_admin(ps, c, row) ==
  /\ Authenticated(c)
  /\ (row.id = c \/ is_admin(ps, c))

\* Variant: the with-check clause without "and role = 'user'".
profiles_insert_self_any_role(ps, c, row) ==
  /\ Authenticated(c)
  /\ (row.id = c \/ is_admin(ps, c))

profiles_insert_self_user_or_admin(ps, c, row) ==
  /\ Authenticated(c)
  /\ ((row.id = c /\ row.role = ROLE_USER) \/ is_admin(ps, c))

\* Variant: the using clause without "or public.is_admin()".
profiles_update_using_self_only(ps, c, row) ==
  /\ Authenticated(c)
  /\ row.id = c

profiles_update_using(ps, c, row) ==
  /\ Authenticated(c)
  /\ (row.id = c \/ is_admin(ps, c))

\* Variant: the with-check clause without "and role = 'user'".
profiles_update_check_any_role(ps, c, row) ==
  /\ Authenticated(c)
  /\ (row.id = c \/ is_admin(ps, c))

profiles_update_check(ps, c, row) ==
  /\ Authenticated(c)
  /\ ((row.id = c /\ row.role = ROLE_USER) \/ is_admin(ps, c))

\* Variant: "using (id = auth.uid() or public.is_admin())", as on select.
profiles_delete_self_or_admin(ps, c, row) ==
  /\ Authenticated(c)
  /\ (row.id = c \/ is_admin(ps, c))

profiles_delete_admin_only(ps, c, row) ==
  /\ Authenticated(c)
  /\ is_admin(ps, c)

\* The inline subquery "exists (select 1 from public.profiles p where p.id =
\* auth.uid() and p.role = 'admin')": it runs as the caller, so it sees the
\* profile rows the select policy of profiles lets the caller see.
VisibleProfiles(ps, c) == {p \in Rows(ps) : profiles_select_self_or_admin(ps, c, p)}

\* Variant: the subquery without "and p.role = 'admin'".
InlineAdmin_any_role(ps, c) == \E p \in VisibleProfiles(ps, c) : p.id = c

InlineAdmin(ps, c) == \E p \in VisibleProfiles(ps, c) : p.id = c /\ p.role = ROLE_ADMIN

\* ------------------------------------------------------------------- state
NoRequest ==
  [op |-> "none", caller |-> Anon, callerRole |-> NoRole, target |-> 0,
   value |-> "-", old |-> "-", allowed |-> FALSE, ok |-> FALSE, seen |-> "-"]

Request(op, c, target, value, old, allowed, ok, seen) ==
  [op |-> op, caller |-> c, callerRole |-> StoredRole(profiles, c), target |-> target,
   value |-> value, old |-> old, allowed |-> allowed, ok |-> ok, seen |-> seen]

\* A browser session: signed out, or running getUserRole(user) at pc.
Idle == [user |-> Anon, pc |-> "idle"]

\* App before anybody signed in: user null, userRole 'user', no role lookup
\* in flight.
SignedOut == [user |-> Anon, userRole |-> ROLE_USER, lookups |-> {}]

\* Storefront as it mounts: the useState initial values with a backend
\* configured.  While App's user is null Storefront is not mounted and front
\* holds this value.
\* cartItems, an array of product ids in the source, is kept as the number of
\* times each id is in it; ordersFor is the (isAdmin, user.id) the order list
\* was loaded for, no user before the first load; "" is the null image file;
\* pendingProduct is the call of addProduct that awaits its insert after the
\* upload of its image, with the values it captured.
InitialFront ==
  [activeTab |-> "products", categories |-> {}, categoriesLoading |-> TRUE,
   products |-> {}, productsLoading |-> TRUE, selectedCategory |-> "All",
   newProductCategory |-> "", adminMessage |-> "",
   orders |-> {}, ordersFor |-> [isAdmin |-> FALSE, user |-> Anon], cartItems |-> [i \in ProductIds |-> 0],
   orderMessage |-> "",
   newProductName |-> "", newProductPrice |-> "", newProductDescription |-> "",
   newProductImageFile |-> "",
   pendingProduct |-> [active |-> FALSE, category |-> "", price |-> 0, image |-> 0]]

\* The README's setup: the schema is installed, the categories are seeded, and
\* identity 1 signed up and was promoted in the SQL editor.
Init ==
  /\ users = {InitialAdmin}
  /\ profiles = SetToBag({[id |-> InitialAdmin, role |-> ROLE_ADMIN]})
  /\ orders = {}
  /\ products = {}
  /\ categories = SeedCategories
  /\ objects = {}
  /\ sessions = [s \in SessionIds |-> Idle]
  /\ last = NoRequest
  /\ app = [s \in SessionIds |-> SignedOut]
  /\ front = [s \in SessionIds |-> InitialFront]

\* ------------------------------------------------------------ provisioning
\* handle_new_user(): insert ... values (new.id, new.email, 'user')
\* on conflict (id) do nothing.
\* Variant: the insert without "on conflict (id) do nothing" and without the key.
handle_new_user_no_conflict(ps, id) == AddRow(ps, [id |-> id, role |-> ROLE_USER])

handle_new_user(ps, id) ==
  IF HasProfile(ps, id) THEN ps ELSE AddRow(ps, [id |-> id, role |-> ROLE_USER])

\* Sign-up: a row of auth.users is inserted and on_auth_user_created fires.
CreateIdentity(id) ==
  /\ id \notin users
  /\ users' = users \cup {id}
  /\ profiles' = handle_new_user(profiles, id)
  /\ last' = Request("create_identity", Anon, id, "-", "-", TRUE, TRUE, "-")
  /\ UNCHANGED <<orders, products, categories, objects, sessions, app, front>>

\* The service role (dashboard, auth admin API) removes an identity: the row of
\* auth.users goes, and "on delete cascade" removes its profile and its orders.
\* Variant: orders.user_id without "on delete cascade".
CascadeOrders_none(os, id) == os

CascadeOrders(os, id) == {o \in os : o.user_id # id}

RemoveIdentity(id) ==
  /\ id \in users
  /\ users' = users \ {id}
  /\ profiles' = DelRows(profiles, ProfileOf(profiles, id))
  /\ orders' = CascadeOrders(orders, id)
  /\ last' = Request("remove_identity", Anon, id, "-", StoredRole(profiles, id), TRUE, TRUE, "-")
  /\ UNCHANGED <<products, categories, objects, sessions, app, front>>

\* ensureUserProfile(authUser): upsert {id, email} on conflict (id).  The
\* statement is insert (id, email) ... on conflict (id) do update set id, email:
\* the role of a new row is the column default 'user', the role of an existing
\* row is not assigned.  The insert policy is checked on the proposed row; on a
\* conflict the update policy is checked on the existing row (using) and on the
\* row as updated (with check).
UpsertAllowed(ps, c, id) ==
  LET proposed == [id |-> id, role |-> ROLE_USER] IN
  /\ profiles_insert_self_user_or_admin(ps, c, proposed)
  /\ \A p \in ProfileOf(ps, id) :
       /\ profiles_select_self_or_admin(ps, c, p)
       /\ profiles_update_using(ps, c, p)
       /\ profiles_update_check(ps, c, p)

\* Variant: a plain insert where no unique key stops the second row.
UpsertRows_no_conflict(ps, id) == AddRow(ps, [id |-> id, role |-> ROLE_USER])

\* Variant: the upsert payload carries role 'user', so a conflict overwrites it.
UpsertRows_overwrite_role(ps, id) ==
  AddRow(DelRows(ps, ProfileOf(ps, id)), [id |-> id, role |-> ROLE_USER])

UpsertRows(ps, id) ==
  IF HasProfile(ps, id) THEN ps ELSE AddRow(ps, [id |-> id, role |-> ROLE_USER])

\* The upsert as served: the rows after it, and the request record.
EnsureServed(c, authUser) ==
  LET allowed == UpsertAllowed(profiles, c, authUser)
      ok == allowed /\ authUser \in users
  IN
  /\ profiles' = IF ok THEN UpsertRows(profiles, authUser) ELSE profiles
  /\ last' = Request("ensure_profile", c, authUser, "-", StoredRole(profiles, authUser),
                     allowed, ok, "-")

\* submitAuth: after signUp the client calls ensureUserProfile(data.user).  The
\* caller is the session of the new user, or anonymous when sign-up returned
\* no session (email confirmation pending).
ensureUserProfile(c, authUser) ==
  /\ c \in {authUser, Anon}
  /\ authUser \in users
  /\ EnsureServed(c, authUser)
  /\ UNCHANGED <<users, orders, products, categories, objects, sessions, app, front>>

\* insert into profiles (id, role): the with-check policy, then the primary
\* key and the foreign key to auth.users.
InsertProfileRow(ps, row) == AddRow(ps, row)

ProfileInsert(c, id, role) ==
  LET row == [id |-> id, role |-> role]
      allowed == profiles_insert_self_user_or_admin(profiles, c, row)
      ok == allowed /\ ~HasProfile(profiles, id) /\ id \in users
  IN
  /\ profiles' = IF ok THEN InsertProfileRow(profiles, row) ELSE profiles
  /\ last' = Request("profile_insert", c, id, role, StoredRole(profiles, id), allowed, ok, "-")
  /\ UNCHANGED <<users, orders, products, categories, objects, sessions, app, front>>

\* update profiles set role = r where id = t.  The row is a target only when
\* the select policy and the using clause pass; the with-check clause is then
\* evaluated on the new row.  is_admin() is stable: it reads the rows as they
\* were when the statement started.
ProfileUpdate(c, t, role) ==
  LET old == CHOOSE p \in ProfileOf(profiles, t) : TRUE
      new == [old EXCEPT !.role = role]
      allowed == /\ profiles_select_self_or_admin(profiles, c, old)
                 /\ profiles_update_using(profiles, c, old)
                 /\ profiles_update_check(profiles, c, new)
  IN
  /\ HasProfile(profiles, t)
  /\ profiles' = IF allowed THEN AddRow(DelRows(profiles, {old}), new) ELSE profiles
  /\ last' = Request("profile_update", c, t, role, old.role, allowed, allowed, "-")
  /\ UNCHANGED <<users, orders, products, categories, objects, sessions, app, front>>

\* delete from profiles where id = t; orders.user_id cascades.
ProfileDelete(c, t) ==
  LET old == CHOOSE p \in ProfileOf(profiles, t) : TRUE
      allowed == /\ profiles_select_self_or_admin(profiles, c, old)
                 /\ profiles_delete_admin_only(profiles, c, old)
  IN
  /\ HasProfile(profiles, t)
  /\ profiles' = IF allowed THEN DelRows(profiles, {old}) ELSE profiles
  /\ orders' = IF allowed THEN CascadeOrders(orders, t) ELSE orders
  /\ last' = Request("profile_delete", c, t, "-", old.role, allowed, allowed, "-")
  /\ UNCHANGED <<users, products, categories, objects, sessions, app, front>>

\* select role from profiles where id = t (maybeSingle): the role of the row
\* when the caller may see it, no row otherwise.
SelectRole(ps, c, t) ==
  LET rows == {p \in ProfileOf(ps, t) : profiles_select_self_or_admin(ps, c, p)} IN
  IF rows = {} THEN NoRole ELSE (CHOOSE p \in rows : TRUE).role

ProfileSelect(c, t) ==
  LET seen == SelectRole(profiles, c, t) IN
  /\ last' = Request("profile_select", c, t, "-", StoredRole(profiles, t),
                     seen # NoRole, seen # NoRole, seen)
  /\ UNCHANGED <<users, profiles, orders, products, categories, objects, sessions, app, front>>

\* ------------------------------------------------------------------ orders
\* Variant: "using (true)", as on products.
orders_select_any_authenticated(ps, c, row) == Authenticated(c)

orders_select_own_or_admin(ps, c, row) ==
  /\ Authenticated(c)
  /\ (row.user_id = c \/ InlineAdmin(ps, c))

\* Variant: "with check (true)": user_id is not compared with auth.uid().
orders_insert_any_authenticated(ps, c, row) == Authenticated(c)

orders_insert_own_or_admin(ps, c, row) ==
  /\ Authenticated(c)
  /\ (row.user_id = c \/ InlineAdmin(ps, c))

\* Variant: the owner may update its order, as it may read it.
orders_update_own_or_admin(ps, c, row) ==
  /\ Authenticated(c)
  /\ (row.user_id = c \/ InlineAdmin(ps, c))

orders_update_admin_only(ps, c, row) ==
  /\ Authenticated(c)
  /\ InlineAdmin(ps, c)

orders_delete_admin_only(ps, c, row) ==
  /\ Authenticated(c)
  /\ InlineAdmin(ps, c)

OrderOf(os, oid) == {o \in os : o.id = oid}

\* Variant: the status column without its check constraint.
orders_status_unchecked(status) == TRUE

\* check (status in ('Placed', 'Processing', 'Shipped', 'Delivered', 'Cancelled')).
orders_status_check(status) ==
  status \in {"Placed", "Processing", "Shipped", "Delivered", "Cancelled"}

FreeOrderIds(os) == {i \in OrderIds : OrderOf(os, i) = {}}

\* insert into orders (user_id, status, ...): placeOrder sends the caller's own
\* id and "Placed"; any other client of the API may send any user_id.  The
\* with-check policy, then the foreign key to profiles and the status check.
\* The checks on total and items_count come with the status check.
OrderInsertServed(c, owner, status, total, items_count, i) ==
  LET row == [id |-> i, user_id |-> owner, status |-> status,
              total |-> total, items_count |-> items_count]
      allowed == orders_insert_own_or_admin(profiles, c, row)
      ok == /\ allowed
            /\ HasProfile(profiles, owner)
            /\ orders_status_check(status)
            /\ total >= 0
            /\ items_count >= 0
  IN
  /\ orders' = IF ok THEN orders \cup {row} ELSE orders
  /\ last' = Request("order_insert", c, owner, status, "-", allowed, ok, "-")

OrderInsert(c, owner, status) ==
  /\ \E i \in FreeOrderIds(orders) : OrderInsertServed(c, owner, status, 0, 0, i)
  /\ UNCHANGED <<users, profiles, products, categories, objects, sessions, app, front>>

\* update orders set status = s where id = oid (updateOrderStatus).
OrderUpdateServed(c, oid, status) ==
  LET old == CHOOSE o \in OrderOf(orders, oid) : TRUE
      new == [old EXCEPT !.status = status]
      allowed == /\ orders_select_own_or_admin(profiles, c, old)
                 /\ orders_update_admin_only(profiles, c, old)
                 /\ orders_update_admin_only(profiles, c, new)
      ok == allowed /\ orders_status_check(status)
  IN
  /\ orders' = IF ok THEN (orders \ {old}) \cup {new} ELSE orders
  /\ last' = Request("order_update", c, old.user_id, status, old.status, allowed, ok, "-")

OrderUpdate(c, oid, status) ==
  /\ OrderOf(orders, oid) # {}
  /\ OrderUpdateServed(c, oid, status)
  /\ UNCHANGED <<users, profiles, products, categories, objects, sessions, app, front>>

OrderDelete(c, oid) ==
  LET old == CHOOSE o \in OrderOf(orders, oid) : TRUE
      allowed == /\ orders_select_own_or_admin(profiles, c, old)
                 /\ orders_delete_admin_only(profiles, c, old)
  IN
  /\ OrderOf(orders, oid) # {}
  /\ orders' = IF allowed THEN orders \ {old} ELSE orders
  /\ last' = Request("order_delete", c, old.user_id, "-", old.status, allowed, allowed, "-")
  /\ UNCHANGED <<users, profiles, products, categories, objects, sessions, app, front>>

\* select ... from orders where id = oid: the status when the caller may see
\* the row, no row otherwise.
SelectOrder(ps, os, c, oid) ==
  LET rows == {o \in OrderOf(os, oid) : orders_select_own_or_admin(ps, c, o)} IN
  IF rows = {} THEN "none" ELSE (CHOOSE o \in rows : TRUE).status

OrderSelect(c, oid) ==
  LET old == CHOOSE o \in OrderOf(orders, oid) : TRUE
      seen == SelectOrder(profiles, orders, c, oid)
  IN
  /\ OrderOf(orders, oid) # {}
  /\ last' = Request("order_select", c, old.user_id, "-", old.status,
                     seen # "none", seen # "none", seen)
  /\ UNCHANGED <<users, profiles, orders, products, categories, objects, sessions, app, front>>

\* The statuses the requests of the model submit: the one placeOrder sends and
\* one an admin sets.
InputStatuses == {"Placed", "Shipped"}

OrderNext ==
  \/ \E c \in users \cup {Anon}, owner \in Ids, s \in InputStatuses : OrderInsert(c, owner, s)
  \/ \E c \in users \cup {Anon}, oid \in OrderIds, s \in InputStatuses : OrderUpdate(c, oid, s)
  \/ \E c \in users \cup {Anon}, oid \in OrderIds : OrderDelete(c, oid)
  \/ \E c \in users \cup {Anon}, oid \in OrderIds : OrderSelect(c, oid)

\* ---------------------------------------------------------------- products
products_select_authenticated(ps, c, row) == Authenticated(c)

products_insert_admin_only(ps, c, row) ==
  /\ Authenticated(c)
  /\ InlineAdmin(ps, c)

products_update_admin_only(ps, c, row) ==
  /\ Authenticated(c)
  /\ InlineAdmin(ps, c)

\* Variant: "using (true)", as on select.
products_delete_any_authenticated(ps, c, row) == Authenticated(c)

products_delete_admin_only(ps, c, row) ==
  /\ Authenticated(c)
  /\ InlineAdmin(ps, c)

ProductOf(prs, pid) == {p \in prs : p.id = pid}

FreeProductIds(prs) == {i \in ProductIds : ProductOf(prs, i) = {}}

\* insert into products: category is free text, no foreign key to categories.
ProductInsertServed(c, category, price, i) ==
  LET row == [id |-> i, category |-> category, price |-> price]
      allowed == products_insert_admin_only(profiles, c, row)
  IN
  /\ products' = IF allowed THEN products \cup {row} ELSE products
  /\ last' = Request("product_insert", c, 0, category, "-", allowed, allowed, "-")

ProductInsert(c, category) ==
  /\ FreeProductIds(products) # {}
  /\ \E i \in FreeProductIds(products) : ProductInsertServed(c, category, 10, i)  \* a price
  /\ UNCHANGED <<users, profiles, orders, categories, objects, sessions, app, front>>

ProductUpdate(c, pid, category) ==
  LET old == CHOOSE p \in ProductOf(products, pid) : TRUE
      new == [old EXCEPT !.category = category]
      allowed == /\ products_select_authenticated(profiles, c, old)
                 /\ products_update_admin_only(profiles, c, old)
                 /\ products_update_admin_only(profiles, c, new)
  IN
  /\ ProductOf(products, pid) # {}
  /\ products' = IF allowed THEN (products \ {old}) \cup {new} ELSE products
  /\ last' = Request("product_update", c, pid, category, old.category, allowed, allowed, "-")
  /\ UNCHANGED <<users, profiles, orders, categories, objects, sessions, app, front>>

\* delete from products where id = pid (removeProduct).
ProductDeleteServed(c, pid) ==
  LET old == CHOOSE p \in ProductOf(products, pid) : TRUE
      allowed == /\ products_select_authenticated(profiles, c, old)
                 /\ products_delete_admin_only(profiles, c, old)
  IN
  /\ products' = IF allowed THEN products \ {old} ELSE products
  /\ last' = Request("product_delete", c, pid, "-", old.category, allowed, allowed, "-")

ProductDelete(c, pid) ==
  /\ ProductOf(products, pid) # {}
  /\ ProductDeleteServed(c, pid)
  /\ UNCHANGED <<users, profiles, orders, categories, objects, sessions, app, front>>

ProductSelect(c, pid) ==
  LET old == CHOOSE p \in ProductOf(products, pid) : TRUE
      allowed == products_select_authenticated(profiles, c, old)
  IN
  /\ ProductOf(products, pid) # {}
  /\ last' = Request("product_select", c, pid, "-", old.category, allowed, allowed,
                     IF allowed THEN old.category ELSE "none")
  /\ UNCHANGED <<users, profiles, orders, products, categories, objects, sessions, app, front>>

\* -------------------------------------------------------------- categories
categories_select_authenticated(ps, c, name) == Authenticated(c)

\* Variant: the admin of the setup is remembered instead of read from profiles.
categories_insert_remembered_admin(ps, c, name) ==
  /\ Authenticated(c)
  /\ c = InitialAdmin

categories_insert_admin_only(ps, c, name) ==
  /\ Authenticated(c)
  /\ is_admin(ps, c)

categories_update_admin_only(ps, c, name) ==
  /\ Authenticated(c)
  /\ is_admin(ps, c)

categories_delete_admin_only(ps, c, name) ==
  /\ Authenticated(c)
  /\ is_admin(ps, c)

\* insert into categories (name): the policy, then unique(name).
CategoryInsertServed(c, name) ==
  LET allowed == categories_insert_admin_only(profiles, c, name)
      ok == allowed /\ name \notin categories
  IN
  /\ categories' = IF ok THEN categories \cup {name} ELSE categories
  /\ last' = Request("category_insert", c, 0, name, "-", allowed, ok, "-")

CategoryInsert(c, name) ==
  /\ CategoryInsertServed(c, name)
  /\ UNCHANGED <<users, profiles, orders, products, objects, sessions, app, front>>

\* update categories set name = new where name = name.
CategoryUpdate(c, name, new) ==
  LET allowed == /\ categories_select_authenticated(profiles, c, name)
                 /\ categories_update_admin_only(profiles, c, name)
                 /\ categories_update_admin_only(profiles, c, new)
      ok == allowed /\ (new = name \/ new \notin categories)
  IN
  /\ name \in categories
  /\ categories' = IF ok THEN (categories \ {name}) \cup {new} ELSE categories
  /\ last' = Request("category_update", c, 0, new, name, allowed, ok, "-")
  /\ UNCHANGED <<users, profiles, orders, products, objects, sessions, app, front>>

\* delete from categories where id = ... (removeCategory).
CategoryDeleteServed(c, name) ==
  LET allowed == /\ categories_select_authenticated(profiles, c, name)
                 /\ categories_delete_admin_only(profiles, c, name)
  IN
  /\ categories' = IF allowed THEN categories \ {name} ELSE categories
  /\ last' = Request("category_delete", c, 0, "-", name, allowed, allowed, "-")

CategoryDelete(c, name) ==
  /\ name \in categories
  /\ CategoryDeleteServed(c, name)
  /\ UNCHANGED <<users, profiles, orders, products, objects, sessions, app, front>>

CategorySelect(c, name) ==
  LET allowed == categories_select_authenticated(profiles, c, name) IN
  /\ name \in categories
  /\ last' = Request("category_select", c, 0, "-", name, allowed, allowed,
                     IF allowed THEN name ELSE "none")
  /\ UNCHANGED <<users, profiles, orders, products, categories, objects, sessions, app, front>>

\* ----------------------------------------------------------------- storage
\* Policies on storage.objects.  product_images_select_public is "to public":
\* it applies to the anonymous caller as well.
\* Variant: the policy is "to authenticated", as every other policy of the file.
product_images_select_authenticated(ps, c, obj) ==
  /\ Authenticated(c)
  /\ obj.bucket_id = ProductImagesBucket

product_images_select_public(ps, c, obj) == obj.bucket_id = ProductImagesBucket

\* Variant: the with-check clause without "bucket_id = 'product-images'".
product_images_admin_insert_any_bucket(ps, c, obj) ==
  /\ Authenticated(c)
  /\ InlineAdmin(ps, c)

product_images_admin_insert(ps, c, obj) ==
  /\ Authenticated(c)
  /\ obj.bucket_id = ProductImagesBucket
  /\ InlineAdmin(ps, c)

product_images_admin_update(ps, c, obj) ==
  /\ Authenticated(c)
  /\ obj.bucket_id = ProductImagesBucket
  /\ InlineAdmin(ps, c)

product_images_admin_delete(ps, c, obj) ==
  /\ Authenticated(c)
  /\ obj.bucket_id = ProductImagesBucket
  /\ InlineAdmin(ps, c)

Object(bucket, name) == [bucket_id |-> bucket, name |-> name]

\* Upload of an object (addProduct uploads the product image).
ObjectInsert(c, bucket, name) ==
  LET obj == Object(bucket, name)
      allowed == product_images_admin_insert(profiles, c, obj)
      ok == allowed /\ obj \notin objects
  IN
  /\ objects' = IF ok THEN objects \cup {obj} ELSE objects
  /\ last' = Request("object_insert", c, name, bucket, "-", allowed, ok, "-")
  /\ UNCHANGED <<users, profiles, orders, products, categories, sessions, app, front>>

\* Overwrite of an object in place: the row stays, its metadata changes.
ObjectUpdate(c, bucket, name) ==
  LET obj == Object(bucket, name)
      allowed == /\ product_images_select_public(profiles, c, obj)
                 /\ product_images_admin_update(profiles, c, obj)
  IN
  /\ obj \in objects
  /\ last' = Request("object_update", c, name, bucket, "-", allowed, allowed, "-")
  /\ UNCHANGED <<users, profiles, orders, products, categories, objects, sessions, app, front>>

ObjectDelete(c, bucket, name) ==
  LET obj == Object(bucket, name)
      allowed == /\ product_images_select_public(profiles, c, obj)
                 /\ product_images_admin_delete(profiles, c, obj)
  IN
  /\ obj \in objects
  /\ objects' = IF allowed THEN objects \ {obj} ELSE objects
  /\ last' = Request("object_delete", c, name, bucket, "-", allowed, allowed, "-")
  /\ UNCHANGED <<users, profiles, orders, products, categories, sessions, app, front>>

\* Read of an object: the public URL of a product image.
ObjectSelect(c, bucket, name) ==
  LET obj == Object(bucket, name)
      allowed == product_images_select_public(profiles, c, obj)
  IN
  /\ last' = Request("object_select", c, name, bucket, "-", allowed,
                     allowed /\ obj \in objects, "-")
  /\ UNCHANGED <<users, profiles, orders, products, categories, objects, sessions, app, front>>

\* ---------------------------------------------------------------- sessions
\* onAuthStateChange / bootstrapSession: a browser session has a signed-in
\* user and starts getUserRoleWithTimeout(currentUser).
SignIn(s, u) ==
  /\ sessions[s].pc = "idle"
  /\ u \in users
  /\ sessions' = [sessions EXCEPT ![s] = [user |-> u, pc |-> "select"]]
  /\ UNCHANGED <<users, profiles, orders, products, categories, objects, last, app, front>>

\* getUserRole, first await: select role from profiles where id = authUser.id.
\* With a row the role is returned; with no row the session goes on to
\* ensureUserProfile.
GetUserRoleSelect(s) ==
  LET u == sessions[s].user
      seen == SelectRole(profiles, u, u)
  IN
  /\ sessions[s].pc = "select"
  /\ sessions' = [sessions EXCEPT ![s] = IF seen = NoRole THEN [user |-> u, pc |-> "ensure"]
                                                          ELSE Idle]
  /\ last' = Request("profile_select", u, u, "-", StoredRole(profiles, u),
                     seen # NoRole, seen # NoRole, seen)
  /\ UNCHANGED <<users, profiles, orders, products, categories, objects, app, front>>

\* getUserRole, second await: ensureUserProfile(authUser).  The session may
\* have been signed out in between: the upsert then goes out anonymously.
GetUserRoleEnsure(s, c) ==
  LET u == sessions[s].user IN
  /\ sessions[s].pc = "ensure"
  /\ c \in {u, Anon}
  /\ EnsureServed(c, u)
  /\ sessions' = [sessions EXCEPT ![s] = Idle]
  /\ UNCHANGED <<users, orders, products, categories, objects, app, front>>

\* --------------------------------------------------------------- the client
\* The browser whose App and Storefront the single-browser specifications
\* run; what other browsers do reaches it through the store.
ClientIds == {1}

Tabs == {"products", "cart", "orders", "admin", "profile"}

\* The order of names in a category list: "order by name" of loadCategories
\* and the localeCompare sort of addCategory.
NameOrder == <<"Bags", "caps", "Caps", "Sneakers", "T-Shirts", "Watches">>

\* categories[0].name of a sorted category list, "" for the empty list.
FirstName(names) ==
  IF names = {} THEN ""
  ELSE NameOrder[CHOOSE i \in 1..Len(NameOrder) :
                   /\ NameOrder[i] \in names
                   /\ \A j \in 1..(i - 1) : NameOrder[j] \notin names]

\* const isAdmin = userRole === ROLE_ADMIN.
isAdmin(a) == a.userRole = ROLE_ADMIN

\* The three effects of Storefront that repair its state after a render: the
\* new-product category defaults to the first category, a selected category
\* that is gone falls back to "All", and the admin tab is left when the user
\* is not an admin.
FrontEffects(f, a) ==
  [f EXCEPT
     !.newProductCategory = IF @ = "" THEN FirstName(f.categories) ELSE @,
     !.selectedCategory = IF @ # "All" /\ @ \notin f.categories THEN "All" ELSE @,
     !.activeTab = IF ~isAdmin(a) /\ @ = "admin" THEN "products" ELSE @]

\* Storefront is rendered only while App's user is set.
Mounted(s) == app[s].user # Anon

\* The Admin button of the navigation bar is rendered.
AdminTabVisible(s) == Mounted(s) /\ isAdmin(app[s])

\* The Admin Portal section is rendered.
AdminPortalVisible(s) == Mounted(s) /\ front[s].activeTab = "admin" /\ isAdmin(app[s])

\* String.prototype.toLowerCase on the category names and the role values.
ToLower(name) ==
  CASE name = "Bags" -> "bags"
    [] name = "Caps" -> "caps"
    [] name = "Sneakers" -> "sneakers"
    [] name = "T-Shirts" -> "t-shirts"
    [] name = "Watches" -> "watches"
    [] name = "Admin" -> "admin"
    [] name = "ADMIN" -> "admin"
    [] name = "User" -> "user"
    [] OTHER -> name

\* getUserRole's first line: without a client or a user id it returns
\* ROLE_USER at once, otherwise the select goes out ("pending").
getUserRoleEntry(client, id) == IF ~client \/ id = Anon THEN ROLE_USER ELSE "pending"

\* A call of getUserRoleWithTimeout(user): pc is the position of getUserRole,
\* seen what its select came back with ("pending" before, "error" for a failed
\* request), race the value Promise.race settled with ("pending" before),
\* timedOut whether the timer settled it, delivered whether the awaiting
\* callback has run setUserRole.  App calls it with the client configured.
NewLookup(u) ==
  [user |-> u,
   pc |-> IF getUserRoleEntry(TRUE, u) = "pending" THEN "select" ELSE "done",
   seen |-> "pending",
   race |-> getUserRoleEntry(TRUE, u),
   timedOut |-> FALSE,
   delivered |-> FALSE]

\* A lookup stays until its callback has run and getUserRole has returned.
KeepLookups(ls) == {l \in ls : ~(l.delivered /\ l.pc = "done")}

\* Variant: the role of the row returned as it is.
RoleOfData_raw(role) == role

\* getUserRole's last line: String(data.role || ROLE_USER).toLowerCase() ===
\* ROLE_ADMIN ? ROLE_ADMIN : ROLE_USER ("" stands for a null or empty role).
RoleOfData(role) ==
  IF ToLower(IF role = "" THEN ROLE_USER ELSE role) = ROLE_ADMIN THEN ROLE_ADMIN ELSE ROLE_USER

\* bootstrapSession with a restored session, and the onAuthStateChange
\* callback with a session: setUser(currentUser), setUserRole(ROLE_USER), then
\* the role lookup starts.
AuthSignedIn(s, u) ==
  LET a == [user |-> u, userRole |-> ROLE_USER,
            lookups |-> app[s].lookups \cup {NewLookup(u)}]
  IN
  /\ u \in users
  /\ Cardinality(app[s].lookups \cup {NewLookup(u)}) <= MaxLookups
  /\ app' = [app EXCEPT ![s] = a]
  /\ front' = [front EXCEPT ![s] = FrontEffects(@, a)]
  /\ UNCHANGED <<users, profiles, orders, products, categories, objects, sessions, last>>

\* handleLogout, and the onAuthStateChange callback without a session:
\* setUser(null), setUserRole(ROLE_USER); Storefront unmounts.  Lookups in
\* flight go on.
handleLogout(s) ==
  /\ Mounted(s)
  /\ app' = [app EXCEPT ![s] = [@ EXCEPT !.user = Anon, !.userRole = ROLE_USER]]
  /\ front' = [front EXCEPT ![s] = InitialFront]
  /\ UNCHANGED <<users, profiles, orders, products, categories, objects, sessions, last>>

\* getUserRole, first await: the select is served for the browser's current
\* session.
LookupSelect(s, l) ==
  LET c == app[s].user
      seen == SelectRole(profiles, c, l.user)
      m == [l EXCEPT !.pc = IF seen = NoRole THEN "ensure" ELSE "done",
                     !.seen = seen,
                     !.race = IF @ = "pending" /\ seen # NoRole THEN RoleOfData(seen) ELSE @]
  IN
  /\ l \in app[s].lookups
  /\ l.pc = "select"
  /\ app' = [app EXCEPT ![s].lookups = KeepLookups((@ \ {l}) \cup {m})]
  /\ last' = Request("profile_select", c, l.user, "-", StoredRole(profiles, l.user),
                     seen # NoRole, seen # NoRole, seen)
  /\ UNCHANGED <<users, profiles, orders, products, categories, objects, sessions, front>>

\* getUserRole, first await: the select comes back with an error (the request
\* did not reach the store, or the store failed); the lookup returns ROLE_USER.
LookupFail(s, l) ==
  LET m == [l EXCEPT !.pc = "done", !.seen = "error",
                     !.race = IF @ = "pending" THEN ROLE_USER ELSE @]
  IN
  /\ l \in app[s].lookups
  /\ l.pc = "select"
  /\ app' = [app EXCEPT ![s].lookups = KeepLookups((@ \ {l}) \cup {m})]
  /\ UNCHANGED <<users, profiles, orders, products, categories, objects, sessions, last, front>>

\* getUserRole, second await: no row was seen, ensureUserProfile runs and the
\* lookup returns ROLE_USER.
LookupEnsure(s, l) ==
  LET m == [l EXCEPT !.pc = "done", !.race = IF @ = "pending" THEN ROLE_USER ELSE @] IN
  /\ l \in app[s].lookups
  /\ l.pc = "ensure"
  /\ EnsureServed(app[s].user, l.user)
  /\ app' = [app EXCEPT ![s].lookups = KeepLookups((@ \ {l}) \cup {m})]
  /\ UNCHANGED <<users, orders, products, categories, objects, sessions, front>>

\* getUserRoleWithTimeout: the timer settles the race with the fallback role
\* before getUserRole returned; getUserRole itself goes on.
LookupTimeout(s, l) ==
  /\ l \in app[s].lookups
  /\ l.race = "pending"
  /\ app' = [app EXCEPT ![s].lookups =
                (@ \ {l}) \cup {[l EXCEPT !.race = ROLE_USER, !.timedOut = TRUE]}]
  /\ UNCHANGED <<users, profiles, orders, products, categories, objects, sessions, last, front>>

\* The callback that awaited the lookup: if (!mounted) return; setUserRole(role).
\* App stays mounted for the life of the page.
LookupDeliver(s, l) ==
  LET a == [app[s] EXCEPT !.userRole = l.race,
                          !.lookups = KeepLookups((@ \ {l}) \cup {[l EXCEPT !.delivered = TRUE]})]
  IN
  /\ l \in app[s].lookups
  /\ l.race # "pending"
  /\ ~l.delivered
  /\ app' = [app EXCEPT ![s] = a]
  /\ front' = [front EXCEPT ![s] = IF a.user # Anon THEN FrontEffects(@, a) ELSE @]
  /\ UNCHANGED <<users, profiles, orders, products, categories, objects, sessions, last>>

\* A button of the navigation bar: setActiveTab(tab).  The Admin button is
\* there only for isAdmin.
SetActiveTab(s, tab) ==
  /\ Mounted(s)
  /\ tab = "admin" => isAdmin(app[s])
  /\ front' = [front EXCEPT ![s] = FrontEffects([@ EXCEPT !.activeTab = tab], app[s])]
  /\ UNCHANGED <<users, profiles, orders, products, categories, objects, sessions, last, app>>

\* -------------------------------------------------- Storefront, admin portal
\* What an admin may type into the category name field.
TypedNames == {"", " ", "Caps", "caps", " caps "}

\* String.prototype.trim on the typed texts.
Trim(t) ==
  CASE t = " " -> ""
    [] t = " Cap " -> "Cap"
    [] t = " caps " -> "caps"
    [] OTHER -> t

MsgCategoryExists == "Category already exists."
MsgCategoryAdded == "Category added."
MsgCategorySaveFailed == "Failed to save category in Supabase"
MsgCategoryInUse == "Cannot delete a category that is used by existing products."
MsgCategoryRemoved == "Category removed."
MsgProductFields == "Fill all product fields with valid values."
MsgUploadFailed == "Image upload failed"
MsgProductSaveFailed == "Failed to save product in Supabase"
MsgProductAdded == "Product added successfully."
MsgProductRemoved == "Product removed."

\* loadCategories: select id, name from categories order by name.  A select
\* the policy filters returns no rows and no error.
LoadCategories(s) ==
  LET c == app[s].user
      allowed == \A n \in categories : categories_select_authenticated(profiles, c, n)
      rows == {n \in categories : categories_select_authenticated(profiles, c, n)}
  IN
  /\ Mounted(s)
  /\ front[s].categoriesLoading
  /\ front' = [front EXCEPT ![s] =
                 FrontEffects([@ EXCEPT !.categories = rows, !.categoriesLoading = FALSE],
                              app[s])]
  /\ last' = Request("category_select", c, 0, "-", "-", allowed, allowed, "-")
  /\ UNCHANGED <<users, profiles, orders, products, categories, objects, sessions, app>>

\* loadProducts: select ... from products order by id desc.
LoadProducts(s) ==
  LET c == app[s].user
      allowed == \A p \in products : products_select_authenticated(profiles, c, p)
      rows == {p \in products : products_select_authenticated(profiles, c, p)}
  IN
  /\ Mounted(s)
  /\ front[s].productsLoading
  /\ front' = [front EXCEPT ![s] = [@ EXCEPT !.products = rows, !.productsLoading = FALSE]]
  /\ last' = Request("product_select", c, 0, "-", "-", allowed, allowed, "-")
  /\ UNCHANGED <<users, profiles, orders, products, categories, objects, sessions, app>>

\* The category chips of the products tab.
SetSelectedCategory(s, name) ==
  /\ Mounted(s)
  /\ name \in front[s].categories \cup {"All"}
  /\ front' = [front EXCEPT ![s] = FrontEffects([@ EXCEPT !.selectedCategory = name], app[s])]
  /\ UNCHANGED <<users, profiles, orders, products, categories, objects, sessions, last, app>>

\* The category select of the add-product form.
SetNewProductCategory(s, name) ==
  /\ AdminPortalVisible(s)
  /\ name \in front[s].categories
  /\ front' = [front EXCEPT ![s] = FrontEffects([@ EXCEPT !.newProductCategory = name], app[s])]
  /\ UNCHANGED <<users, profiles, orders, products, categories, objects, sessions, last, app>>

\* addCategory with the text typed into the name field.
addCategory(s, typed) ==
  LET f == front[s]
      name == Trim(typed)
      exists == \E cat \in f.categories : ToLower(cat) = ToLower(name)
      added == [f EXCEPT !.categories = @ \cup {name},
                         !.newProductCategory = name,
                         !.adminMessage = MsgCategoryAdded]
  IN
  /\ AdminPortalVisible(s)
  /\ IF name = ""
       THEN UNCHANGED <<categories, last, front>>
       ELSE IF exists
         THEN /\ front' = [front EXCEPT ![s].adminMessage = MsgCategoryExists]
              /\ UNCHANGED <<categories, last>>
         ELSE /\ CategoryInsertServed(app[s].user, name)
              /\ front' = [front EXCEPT ![s] =
                   IF last'.ok THEN FrontEffects(added, app[s])
                   ELSE [f EXCEPT !.adminMessage =
                           IF last'.allowed THEN MsgCategoryExists ELSE MsgCategorySaveFailed]]
  /\ UNCHANGED <<users, profiles, orders, products, objects, sessions, app>>

\* Variant: removeCategory without the hasProducts check.
removeCategory_unchecked(s, name) ==
  LET f == front[s]
      remaining == f.categories \ {name}
      removed == [f EXCEPT !.categories = remaining,
                           !.selectedCategory = IF @ = name THEN "All" ELSE @,
                           !.newProductCategory = IF @ = name THEN FirstName(remaining) ELSE @,
                           !.adminMessage = MsgCategoryRemoved]
  IN
  /\ AdminPortalVisible(s)
  /\ name \in f.categories
  /\ CategoryDeleteServed(app[s].user, name)
  /\ front' = [front EXCEPT ![s] = FrontEffects(removed, app[s])]
  /\ UNCHANGED <<users, profiles, orders, products, objects, sessions, app>>

\* removeCategory on a row of the client's category list.  A delete the
\* policy filters removes no row and returns no error.
removeCategory(s, name) ==
  LET f == front[s]
      hasProducts == \E p \in f.products : p.category = name
      remaining == f.categories \ {name}
      removed == [f EXCEPT !.categories = remaining,
                           !.selectedCategory = IF @ = name THEN "All" ELSE @,
                           !.newProductCategory = IF @ = name THEN FirstName(remaining) ELSE @,
                           !.adminMessage = MsgCategoryRemoved]
  IN
  /\ AdminPortalVisible(s)
  /\ name \in f.categories
  /\ IF hasProducts
       THEN /\ front' = [front EXCEPT ![s].adminMessage = MsgCategoryInUse]
            /\ UNCHANGED <<categories, last>>
       ELSE /\ CategoryDeleteServed(app[s].user, name)
            /\ front' = [front EXCEPT ![s] = FrontEffects(removed, app[s])]
  /\ UNCHANGED <<users, profiles, orders, products, objects, sessions, app>>

FreeObjectNames(os) == {n \in ObjectNames : \A o \in os : o.name # n}

\* Number(newProductPrice): the value, and whether it is finite.
Number(text) ==
  CASE text = "10" -> [finite |-> TRUE, value |-> 10]
    [] text = "-5" -> [finite |-> TRUE, value |-> 0 - 5]
    [] text = "abc" -> [finite |-> FALSE, value |-> 0]
    [] OTHER -> [finite |-> TRUE, value |-> 0]

\* The fields of the add-product form, as the onChange handlers set them.
FilledForm(f, name, price, description, file) ==
  [f EXCEPT !.newProductName = name,
            !.newProductPrice = price,
            !.newProductDescription = description,
            !.newProductImageFile = file]

SetProductForm(s, name, price, description, file) ==
  /\ AdminPortalVisible(s)
  /\ front' = [front EXCEPT ![s] = FilledForm(@, name, price, description, file)]
  /\ UNCHANGED <<users, profiles, orders, products, categories, objects, sessions, last, app>>

\* !name || !newProductCategory || !description || !Number.isFinite(price) ||
\* price <= 0, negated.
ProductFormValid(f) ==
  /\ Trim(f.newProductName) # ""
  /\ f.newProductCategory # ""
  /\ Trim(f.newProductDescription) # ""
  /\ Number(f.newProductPrice).finite
  /\ Number(f.newProductPrice).value > 0

\* Variant: a failed product insert empties the form as a served one does.
addProductFailed_resets_form(f) ==
  [f EXCEPT !.newProductName = "", !.newProductPrice = "", !.newProductDescription = "",
            !.newProductImageFile = "", !.adminMessage = MsgProductSaveFailed,
            !.pendingProduct = InitialFront.pendingProduct]

\* addProduct after a rejected insert: the message, nothing else.
addProductFailed(f) ==
  [f EXCEPT !.adminMessage = MsgProductSaveFailed,
            !.pendingProduct = InitialFront.pendingProduct]

\* addProduct after its insert: the new row in the product list and the
\* emptied form (the category select excepted), or the failure.
addProductDone(f, ok, row) ==
  IF ok
    THEN [f EXCEPT !.products = @ \cup {row},
                   !.newProductName = "",
                   !.newProductPrice = "",
                   !.newProductDescription = "",
                   !.newProductImageFile = "",
                   !.adminMessage = MsgProductAdded,
                   !.pendingProduct = InitialFront.pendingProduct]
    ELSE addProductFailed(f)

\* addProduct on the form f of the client, up to its first request; env is
\* the deployment's bucket setting.  An invalid form ends it.  With a file
\* chosen the upload goes out, under a fresh name: a failed upload ends the
\* handler, a served one leaves it waiting for its insert.  Without a file
\* the insert goes out at once.
addProductOn(s, f, env) ==
  LET c == app[s].user
      category == f.newProductCategory
      price == Number(f.newProductPrice).value
      file == f.newProductImageFile # ""
      obj(n) == Object(PRODUCT_IMAGE_BUCKET(env), n)
      uploadOk(n) == product_images_admin_insert(profiles, c, obj(n))
  IN
  /\ AdminPortalVisible(s)
  /\ ~front[s].pendingProduct.active
  /\ IF ~ProductFormValid(f)
       THEN /\ front' = [front EXCEPT ![s] = [f EXCEPT !.adminMessage = MsgProductFields]]
            /\ UNCHANGED <<products, objects, last>>
       ELSE IF file
         THEN \E n \in FreeObjectNames(objects) :
                /\ objects' = IF uploadOk(n) THEN objects \cup {obj(n)} ELSE objects
                /\ last' = Request("object_insert", c, n, PRODUCT_IMAGE_BUCKET(env), "-",
                                   uploadOk(n), uploadOk(n), "-")
                /\ front' = [front EXCEPT ![s] =
                     IF uploadOk(n)
                       THEN [f EXCEPT !.pendingProduct =
                               [active |-> TRUE, category |-> category,
                                price |-> price, image |-> n]]
                       ELSE [f EXCEPT !.adminMessage = MsgUploadFailed]]
                /\ UNCHANGED products
         ELSE \E i \in FreeProductIds(products) :
                /\ ProductInsertServed(c, category, price, i)
                /\ front' = [front EXCEPT ![s] =
                     addProductDone(f, last'.ok,
                                    [id |-> i, category |-> category, price |-> price])]
                /\ UNCHANGED objects
  /\ UNCHANGED <<users, profiles, orders, categories, sessions, app>>

\* addProduct after the served upload of its image: the insert of the product
\* with the values the call captured.  The uploaded image stays whatever the
\* outcome.
addProductInsert(s) ==
  LET f == front[s]
      pending == f.pendingProduct
      c == app[s].user
  IN
  /\ Mounted(s)
  /\ pending.active
  /\ \E i \in FreeProductIds(products) :
       /\ ProductInsertServed(c, pending.category, pending.price, i)
       /\ front' = [front EXCEPT ![s] =
            addProductDone(f, last'.ok,
                           [id |-> i, category |-> pending.category, price |-> pending.price])]
  /\ UNCHANGED <<users, profiles, orders, categories, objects, sessions, app>>

\* The submit button of the form.
addProduct(s, env) == addProductOn(s, front[s], env)

\* The admin fills the form and submits it, in one step.
FillAndAddProduct(s, name, price, description, file, env) ==
  addProductOn(s, FilledForm(front[s], name, price, description, file), env)

\* removeProduct on a row of the client's product list.  A delete that finds
\* no row, or that the policy filters, returns no error.
removeProduct(s, pid) ==
  LET c == app[s].user IN
  /\ AdminPortalVisible(s)
  /\ \E p \in front[s].products : p.id = pid
  /\ IF ProductOf(products, pid) # {}
       THEN ProductDeleteServed(c, pid)
       ELSE /\ last' = Request("product_delete", c, pid, "-", "-", FALSE, FALSE, "-")
            /\ UNCHANGED products
  /\ front' = [front EXCEPT ![s] = [@ EXCEPT !.products = {p \in @ : p.id # pid},
                                             !.adminMessage = MsgProductRemoved]]
  /\ UNCHANGED <<users, profiles, orders, categories, objects, sessions, app>>

\* ------------------------------------------------- Storefront, cart and orders
MsgOrderFailed == "Failed to place order"
MsgOrderPlaced == "Order placed successfully."
MsgOrderStatusUpdated == "Order status updated."

\* normalizeOrder on a row of the orders table.
normalizeOrder(row) ==
  [id |-> row.id,
   status |-> IF row.status \in StatusSet THEN row.status ELSE "Placed",
   total |-> row.total,
   items |-> row.items_count,
   userId |-> row.user_id]

\* The dependencies of the effect that loads the orders.
OrderDeps(s) == [isAdmin |-> isAdmin(app[s]), user |-> app[s].user]

\* loadOrders, run by the effect at mount and whenever isAdmin or the user
\* changes: an admin asks for every order, any other user for its own; the
\* select policy filters what is asked for.
LoadOrders(s) ==
  LET c == app[s].user
      asked == {o \in orders : isAdmin(app[s]) \/ o.user_id = c}
      rows == {o \in asked : orders_select_own_or_admin(profiles, c, o)}
  IN
  /\ Mounted(s)
  /\ front[s].ordersFor # OrderDeps(s)
  /\ front' = [front EXCEPT ![s] = [@ EXCEPT !.orders = {normalizeOrder(o) : o \in rows},
                                             !.ordersFor = OrderDeps(s)]]
  /\ last' = Request("order_list", c, 0, "-", "-", rows = asked, rows = asked, "-")
  /\ UNCHANGED <<users, profiles, orders, products, categories, objects, sessions, app>>

\* cartQtyById[id]: how often id is in cartItems.
cartQtyById(f, pid) == f.cartItems[pid]

\* Array.prototype.reduce with a sum, over the rows.
RECURSIVE SumOver(_, _)
SumOver(rows, value) ==
  IF rows = {} THEN 0
  ELSE LET r == CHOOSE x \in rows : TRUE IN value[r] + SumOver(rows \ {r}, value)

\* cartSummary: a row for every id of the cart that is in the product list,
\* with the subtotal; items is the reduce of placeOrder over the rows.
cartSummary(f) ==
  LET rows == {[id |-> p.id, price |-> p.price, qty |-> f.cartItems[p.id]] :
                 p \in {q \in f.products : f.cartItems[q.id] > 0}}
  IN [rows |-> rows,
      subtotal |-> SumOver(rows, [r \in rows |-> r.price * r.qty]),
      items |-> SumOver(rows, [r \in rows |-> r.qty])]

\* cartItems.length.
CartLength(f) == SumOver(ProductIds, f.cartItems)

\* increaseQty, from a product card or a cart row: setCartItems([...prev, id]).
increaseQty(s, pid) ==
  /\ Mounted(s)
  /\ \E p \in front[s].products : p.id = pid
  /\ CartLength(front[s]) < MaxCart
  /\ front' = [front EXCEPT ![s].cartItems[pid] = @ + 1]
  /\ UNCHANGED <<users, profiles, orders, products, categories, objects, sessions, last, app>>

\* decreaseQty: the first occurrence of id is taken out; without one the cart
\* stays as it is.
decreaseQty(s, pid) ==
  /\ Mounted(s)
  /\ \E p \in front[s].products : p.id = pid
  /\ front' = [front EXCEPT ![s].cartItems[pid] = IF @ > 0 THEN @ - 1 ELSE @]
  /\ UNCHANGED <<users, profiles, orders, products, categories, objects, sessions, last, app>>

\* Variant: placeOrder empties the cart before it knows the outcome.
placeOrderFailed_clears_cart(f) ==
  [f EXCEPT !.orderMessage = MsgOrderFailed, !.cartItems = [i \in ProductIds |-> 0]]

\* placeOrder after a rejected insert: the message, nothing else.
placeOrderFailed(f) == [f EXCEPT !.orderMessage = MsgOrderFailed]

\* placeOrder: nothing without a cart row; otherwise the insert of the user's
\* own order with status "Placed", and on success the returned row in the
\* order list, the empty cart and the orders tab.  The id of the new row is
\* one that nobody holds (gen_random_uuid()).
placeOrder(s) ==
  LET f == front[s]
      c == app[s].user
      summary == cartSummary(f)
  IN
  /\ Mounted(s)
  /\ IF summary.rows = {}
       THEN UNCHANGED <<orders, last, front>>
       ELSE \E i \in FreeOrderIds(orders) \ {o.id : o \in f.orders} :
              /\ OrderInsertServed(c, c, "Placed", summary.subtotal, summary.items, i)
              /\ front' = [front EXCEPT ![s] =
                   IF last'.ok
                     THEN FrontEffects(
                            [f EXCEPT !.orders = @ \cup {normalizeOrder(
                                          CHOOSE o \in orders' : o.id = i)},
                                      !.cartItems = [j \in ProductIds |-> 0],
                                      !.orderMessage = MsgOrderPlaced,
                                      !.activeTab = "orders"], app[s])
                     ELSE placeOrderFailed(f)]
  /\ UNCHANGED <<users, profiles, products, categories, objects, sessions, app>>

\* updateOrderStatus from the status select of an order row of the Admin
\* Portal.  An update that the policy filters, or that finds no row, returns
\* no error.
updateOrderStatus(s, oid, nextStatus) ==
  LET c == app[s].user IN
  /\ AdminPortalVisible(s)
  /\ \E o \in front[s].orders : o.id = oid
  /\ IF nextStatus \notin StatusSet
       THEN UNCHANGED <<orders, last, front>>
       ELSE /\ IF OrderOf(orders, oid) # {}
                 THEN OrderUpdateServed(c, oid, nextStatus)
                 ELSE /\ last' = Request("order_update", c, 0, nextStatus, "-",
                                         FALSE, FALSE, "-")
                      /\ UNCHANGED orders
            /\ front' = [front EXCEPT ![s] =
                 [@ EXCEPT !.orders = {IF o.id = oid THEN [o EXCEPT !.status = nextStatus]
                                                    ELSE o : o \in @},
                           !.adminMessage = MsgOrderStatusUpdated]]
  /\ UNCHANGED <<users, profiles, products, categories, objects, sessions, app>>

IdentityNext ==
  \/ \E id \in Ids : CreateIdentity(id)
  \/ \E id \in Ids : RemoveIdentity(id)

ProfileNext ==
  \/ \E u \in Ids, c \in Callers : ensureUserProfile(c, u)
  \/ \E c \in users \cup {Anon}, id \in Ids, r \in Roles : ProfileInsert(c, id, r)
  \/ \E c \in users \cup {Anon}, t \in Ids, r \in Roles : ProfileUpdate(c, t, r)
  \/ \E c \in users \cup {Anon}, t \in Ids : ProfileDelete(c, t)
  \/ \E c \in users \cup {Anon}, t \in Ids : ProfileSelect(c, t)

\* The profile subsystem: identities and every profile request.
Next == IdentityNext \/ ProfileNext

Spec == Init /\ [][Next]_vars

\* The identities that sign up in the order, catalog and storage subsystems.
PartyIds == 1..MaxParties

\* The steps that change who exists, who is an admin and who has a profile row.
PopulationNext ==
  \/ \E id \in PartyIds : CreateIdentity(id)
  \/ \E id \in PartyIds : RemoveIdentity(id)
  \/ \E c \in users, t \in Ids, r \in Roles : ProfileUpdate(c, t, r)
  \/ \E c \in users, t \in Ids : ProfileDelete(c, t)

\* Profile creation from every place that creates one: sign-up (the trigger
\* and the client's upsert) and getUserRole in several browser sessions, with
\* an admin deleting profile rows in between.
NextSessions ==
  \/ \E id \in PartyIds : CreateIdentity(id)
  \/ \E id \in PartyIds : RemoveIdentity(id)
  \/ \E c \in users, t \in Ids : ProfileDelete(c, t)
  \/ \E u \in Ids, c \in Callers : ensureUserProfile(c, u)
  \/ \E s \in SessionIds, u \in Ids : SignIn(s, u)
  \/ \E s \in SessionIds : GetUserRoleSelect(s)
  \/ \E s \in SessionIds, c \in Callers : GetUserRoleEnsure(s, c)

SpecSessions == Init /\ [][NextSessions]_vars

\* The order subsystem: every order request over a changing population.
NextOrders == PopulationNext \/ OrderNext

SpecOrders == Init /\ [][NextOrders]_vars

\* The catalog subsystem: every product and category request.
InputCategories == {"Bags", "Caps"}

ProductNext ==
  \/ \E c \in users \cup {Anon} : ProductInsert(c, "Bags")
  \/ \E c \in users \cup {Anon}, pid \in ProductIds : ProductUpdate(c, pid, "Caps")
  \/ \E c \in users \cup {Anon}, pid \in ProductIds : ProductDelete(c, pid)
  \/ \E c \in users \cup {Anon}, pid \in ProductIds : ProductSelect(c, pid)

CategoryNext ==
  \/ \E c \in users \cup {Anon}, n \in InputCategories : CategoryInsert(c, n)
  \/ \E c \in users \cup {Anon}, n \in InputCategories, m \in InputCategories :
       CategoryUpdate(c, n, m)
  \/ \E c \in users \cup {Anon}, n \in InputCategories : CategoryDelete(c, n)
  \/ \E c \in users \cup {Anon}, n \in InputCategories : CategorySelect(c, n)

NextCatalog == PopulationNext \/ ProductNext \/ CategoryNext

SpecCatalog == Init /\ [][NextCatalog]_vars

\* The storage subsystem: the upload of addProduct into the bucket the
\* deployment configured, and every other request on storage.objects.
NextStorage ==
  \/ PopulationNext
  \/ \E c \in users \cup {Anon}, env \in EnvBuckets, n \in ObjectNames :
       ObjectInsert(c, PRODUCT_IMAGE_BUCKET(env), n)
  \/ \E c \in users \cup {Anon}, b \in Buckets, n \in ObjectNames : ObjectUpdate(c, b, n)
  \/ \E c \in users \cup {Anon}, b \in Buckets, n \in ObjectNames : ObjectDelete(c, b, n)
  \/ \E c \in users \cup {Anon}, b \in Buckets, n \in ObjectNames : ObjectSelect(c, b, n)

SpecStorage == Init /\ [][NextStorage]_vars

\* The tabs the model clicks.
InputTabs == {"products", "admin", "profile"}

\* The App component of a browser: sign-in, the role lookup and its timeout,
\* logout and the navigation bar, while identities sign up and roles change.
AppNext ==
  \/ \E s \in ClientIds, u \in PartyIds : AuthSignedIn(s, u)
  \/ \E s \in ClientIds : handleLogout(s)
  \/ \E s \in ClientIds : \E l \in app[s].lookups : LookupSelect(s, l)
  \/ \E s \in ClientIds : \E l \in app[s].lookups : LookupFail(s, l)
  \/ \E s \in ClientIds : \E l \in app[s].lookups : LookupEnsure(s, l)
  \/ \E s \in ClientIds : \E l \in app[s].lookups : LookupTimeout(s, l)
  \/ \E s \in ClientIds : \E l \in app[s].lookups : LookupDeliver(s, l)
  \/ \E s \in ClientIds, tab \in InputTabs : SetActiveTab(s, tab)

NextApp == PopulationNext \/ AppNext

SpecApp == Init /\ [][NextApp]_vars

\* One browser over a store whose roles do not change: identities sign up,
\* sign in and log out while role lookups are in flight.
NextAuth ==
  \/ \E id \in PartyIds : CreateIdentity(id)
  \/ AppNext

SpecAuth == Init /\ [][NextAuth]_vars

\* The role lookups of one browser: sign-ins and logouts of admins and users,
\* with and without a profile row, and every way a lookup can end.  Every
\* lookup has its own timer, which fires unless the race settles first.
LookupPositions == {"select", "ensure"}

\* The user of the browser: an identity that signs up and that the admin of
\* the setup promotes, demotes and strips of its profile row.
LookupUsers == {2}

LookupTimerFires(u, pc) ==
  \E s \in ClientIds : \E l \in app[s].lookups :
    l.user = u /\ l.pc = pc /\ LookupTimeout(s, l)

NextLookups ==
  \/ \E id \in LookupUsers : CreateIdentity(id)
  \/ \E t \in LookupUsers, r \in Roles : ProfileUpdate(InitialAdmin, t, r)
  \/ \E t \in LookupUsers : ProfileDelete(InitialAdmin, t)
  \/ \E s \in ClientIds, u \in LookupUsers : ~Mounted(s) /\ AuthSignedIn(s, u)
  \/ \E s \in ClientIds : handleLogout(s)
  \/ \E s \in ClientIds : \E l \in app[s].lookups : LookupSelect(s, l)
  \/ \E s \in ClientIds : \E l \in app[s].lookups : LookupFail(s, l)
  \/ \E s \in ClientIds : \E l \in app[s].lookups : LookupEnsure(s, l)
  \/ \E u \in LookupUsers, pc \in LookupPositions : LookupTimerFires(u, pc)
  \/ \E s \in ClientIds : \E l \in app[s].lookups : LookupDeliver(s, l)

SpecLookups ==
  /\ Init /\ [][NextLookups]_vars
  /\ \A u \in LookupUsers, pc \in LookupPositions : WF_vars(LookupTimerFires(u, pc))

\* What the model types into the category name field, and the categories it
\* removes.  A removed name is not typed again: a category row of the client
\* stands for the row of the store with that name.
InputTyped == {"", "Caps", " caps "}

RemovableCategories == {"Bags"}

\* Sign-in of the admin in the browsers bs, up to the open Admin Portal.
SignInNext(bs) ==
  \/ \E s \in bs : ~Mounted(s) /\ AuthSignedIn(s, InitialAdmin)
  \/ \E s \in bs : \E l \in app[s].lookups : LookupSelect(s, l)
  \/ \E s \in bs : \E l \in app[s].lookups : LookupDeliver(s, l)
  \/ \E s \in bs : SetActiveTab(s, "admin")

\* The two loads of Storefront.
LoadNext(bs) ==
  \/ \E s \in bs : LoadCategories(s)
  \/ \E s \in bs : LoadProducts(s)

\* The product handlers and removeCategory.
ProductFormNext(bs) ==
  \/ \E s \in bs, name \in RemovableCategories : removeCategory(s, name)
  \/ \E s \in bs : FillAndAddProduct(s, "Cap", "10", "A cap", "", "")
  \/ \E s \in bs : addProduct(s, "")
  \/ \E s \in bs, pid \in ProductIds : removeProduct(s, pid)

\* One admin in a browser with the whole Admin Portal, while other clients
\* of the API write products.
NextPortal ==
  \/ SignInNext(ClientIds)
  \/ LoadNext(ClientIds)
  \/ ProductFormNext(ClientIds)
  \/ \E s \in ClientIds, typed \in InputTyped : addCategory(s, typed)
  \/ \E s \in ClientIds, name \in RemovableCategories \cup {"All"} : SetSelectedCategory(s, name)
  \/ \E s \in ClientIds, name \in RemovableCategories \cup {"Sneakers"} :
       SetNewProductCategory(s, name)
  \/ ProductInsert(InitialAdmin, "Bags")
  \/ \E pid \in ProductIds : ProductDelete(InitialAdmin, pid)

SpecPortal == Init /\ [][NextPortal]_vars

\* The admin in several browsers, adding and removing products and removing
\* categories.
NextProductForms == SignInNext(SessionIds) \/ LoadNext(SessionIds) \/ ProductFormNext(SessionIds)

SpecProductForms == Init /\ [][NextProductForms]_vars

\* The admin in several browsers, adding categories.
NextCategoryForms ==
  \/ SignInNext(SessionIds)
  \/ LoadNext(SessionIds)
  \/ \E s \in SessionIds, typed \in InputTyped : addCategory(s, typed)

SpecCategoryForms == Init /\ [][NextCategoryForms]_vars

\* What the admin types into the add-product form: <<name, price,
\* description, image file>>.
InputForms ==
  {<<"Cap", "10", "A cap", "">>,
   <<"Cap", "10", "A cap", "cap.png">>,
   <<" ", "10", "A cap", "cap.png">>,
   <<"Cap", "10", " ", "cap.png">>,
   <<"Cap", "abc", "A cap", "cap.png">>,
   <<"Cap", "-5", "A cap", "cap.png">>,
   <<"Cap", "", "A cap", "cap.png">>}

\* The add-product form of an admin in one browser, with the bucket setting
\* of the deployment right or wrong, while the admin is demoted and promoted
\* again from elsewhere.
NextProductSubmit ==
  \/ SignInNext(ClientIds)
  \/ \E s \in ClientIds : LoadCategories(s)
  \/ \E s \in ClientIds, form \in InputForms :
       SetProductForm(s, form[1], form[2], form[3], form[4])
  \/ \E s \in ClientIds, env \in {"", "avatars"} : addProduct(s, env)
  \/ \E s \in ClientIds : addProductInsert(s)
  \/ \E r \in Roles : ProfileUpdate(InitialAdmin, InitialAdmin, r)

SpecProductSubmit == Init /\ [][NextProductSubmit]_vars

\* The write handlers of one browser whose user is the admin of the setup,
\* who is demoted, promoted again or stripped of the profile row from
\* elsewhere while the Admin Portal is open.
NextWrites ==
  \/ SignInNext(ClientIds)
  \/ LoadNext(ClientIds)
  \/ \E s \in ClientIds : LoadOrders(s)
  \/ ProductInsert(InitialAdmin, "Bags")
  \/ OrderInsert(InitialAdmin, InitialAdmin, "Placed")
  \/ \E r \in Roles : ProfileUpdate(InitialAdmin, InitialAdmin, r)
  \/ ProfileDelete(InitialAdmin, InitialAdmin)
  \/ \E s \in ClientIds : addCategory(s, "Caps")
  \/ \E s \in ClientIds, name \in RemovableCategories : removeCategory(s, name)
  \/ \E s \in ClientIds : FillAndAddProduct(s, "Cap", "10", "A cap", "", "")
  \/ \E s \in ClientIds, pid \in ProductIds : removeProduct(s, pid)
  \/ \E s \in ClientIds, oid \in OrderIds, status \in {"Shipped", "Refunded"} :
       updateOrderStatus(s, oid, status)
  \/ \E s \in ClientIds, pid \in ProductIds : increaseQty(s, pid)
  \/ \E s \in ClientIds : placeOrder(s)

SpecWrites == Init /\ [][NextWrites]_vars

\* A customer in one browser: the product list, the cart and placeOrder,
\* while the admin of the setup adds products and deletes profile rows.
CartUsers == {2}

NextCart ==
  \/ \E id \in CartUsers : CreateIdentity(id)
  \/ \E t \in CartUsers : ProfileDelete(InitialAdmin, t)
  \/ ProductInsert(InitialAdmin, "Bags")
  \/ \E s \in ClientIds, u \in CartUsers : ~Mounted(s) /\ AuthSignedIn(s, u)
  \/ \E s \in ClientIds : \E l \in app[s].lookups : LookupSelect(s, l)
  \/ \E s \in ClientIds : \E l \in app[s].lookups : LookupEnsure(s, l)
  \/ \E s \in ClientIds : \E l \in app[s].lookups : LookupDeliver(s, l)
  \/ \E s \in ClientIds : handleLogout(s)
  \/ \E s \in ClientIds : LoadProducts(s)
  \/ \E s \in ClientIds : LoadOrders(s)
  \/ \E s \in ClientIds, pid \in ProductIds : increaseQty(s, pid)
  \/ \E s \in ClientIds, pid \in ProductIds : decreaseQty(s, pid)
  \/ \E s \in ClientIds : placeOrder(s)

SpecCart == Init /\ [][NextCart]_vars

\* The statuses of an order: every status of the list and one outside it.
AnyStatuses == StatusSet \cup {"Refunded"}

\* The admin of the setup with the Admin Portal open, setting the status of
\* orders, while clients of the API, admins or not, place orders and send
\* updates, also with a status outside the list, which the portal never sends.
NextOrderStatus ==
  \/ SignInNext(ClientIds)
  \/ \E s \in ClientIds : LoadOrders(s)
  \/ \E id \in PartyIds : CreateIdentity(id)
  \/ \E c \in users, status \in {"Placed", "Refunded"} : OrderInsert(c, c, status)
  \/ \E c \in users, oid \in OrderIds : OrderUpdate(c, oid, "Refunded")
  \/ \E s \in ClientIds, oid \in OrderIds, status \in AnyStatuses :
       updateOrderStatus(s, oid, status)

SpecOrderStatus == Init /\ [][NextOrderStatus]_vars

\* What the anonymous caller can reach: every request of the anonymous caller,
\* next to the sign-ups, role changes, product inserts and uploads that give
\* it rows to ask for, and the reads of every caller.
NextPublic ==
  \/ \E id \in PartyIds : CreateIdentity(id)
  \/ \E c \in users, t \in Ids, r \in Roles : ProfileUpdate(c, t, r)
  \/ \E c \in users, t \in Ids : ProfileDelete(c, t)
  \/ \E c \in users \cup {Anon} : ProductInsert(c, "Bags")
  \/ \E c \in users \cup {Anon}, pid \in ProductIds : ProductSelect(c, pid)
  \/ \E pid \in ProductIds : ProductUpdate(Anon, pid, "Caps")
  \/ \E pid \in ProductIds : ProductDelete(Anon, pid)
  \/ \E c \in users \cup {Anon}, b \in Buckets, n \in ObjectNames : ObjectInsert(c, b, n)
  \/ \E c \in users \cup {Anon}, b \in Buckets, n \in ObjectNames : ObjectSelect(c, b, n)
  \/ \E b \in Buckets, n \in ObjectNames : ObjectUpdate(Anon, b, n)
  \/ \E b \in Buckets, n \in ObjectNames : ObjectDelete(Anon, b, n)
  \/ \E id \in Ids, r \in Roles : ProfileInsert(Anon, id, r)
  \/ \E t \in Ids, r \in Roles : ProfileUpdate(Anon, t, r)
  \/ \E t \in Ids : ProfileDelete(Anon, t)
  \/ \E t \in Ids : ProfileSelect(Anon, t)
  \/ \E n \in InputCategories : CategoryInsert(Anon, n)
  \/ \E n \in InputCategories, m \in InputCategories : CategoryUpdate(Anon, n, m)
  \/ \E n \in InputCategories : CategoryDelete(Anon, n)
  \/ \E n \in InputCategories : CategorySelect(Anon, n)
  \/ \E owner \in Ids : OrderInsert(Anon, owner, "Placed")

SpecPublic == Init /\ [][NextPublic]_vars

\* =================================================================== claims
RowCount(ps, id) == BagCardinality([r \in ProfileOf(ps, id) |-> ps[r]])

RoleChanged(t) ==
  /\ HasProfile(profiles, t)
  /\ HasProfile(profiles', t)
  /\ StoredRole(profiles, t) # StoredRole(profiles', t)

\* C1: a caller whose stored role is 'user' cannot update its own profile row
\* to role 'admin' (the request is rejected and the stored role stays 'user'),
\* and can update its own row to role 'user'.
C1_SelfPromotionBlocked ==
  /\ \A i \in Ids :
       StoredRole(profiles, i) = ROLE_USER =>
         LET own(r) == [id |-> i, role |-> r] IN
         /\ ~(/\ profiles_update_using(profiles, i, own(ROLE_USER))
              /\ profiles_update_check(profiles, i, own(ROLE_ADMIN)))
         /\ profiles_select_self_or_admin(profiles, i, own(ROLE_USER))
         /\ profiles_update_using(profiles, i, own(ROLE_USER))
         /\ profiles_update_check(profiles, i, own(ROLE_USER))
  /\ (/\ last.op = "profile_update"
      /\ last.caller = last.target
      /\ last.callerRole = ROLE_USER) =>
       /\ last.value = ROLE_ADMIN =>
            (~last.ok /\ StoredRole(profiles, last.target) = ROLE_USER)
       /\ last.value = ROLE_USER => last.ok

C1_Witness ==
  /\ last.op = "profile_update"
  /\ last.caller = last.target
  /\ last.callerRole = ROLE_USER
  /\ last.value = ROLE_ADMIN
  /\ ~last.ok

\* C2: a user's update of its own role to 'admin' is denied and leaves the
\* profiles as they were; an admin's update of another identity's row is
\* allowed and stores the submitted role; and a select by that identity of its
\* own row right after an admin set it to 'admin' returns 'admin'.
C2_AdminPromotesUser ==
  [][/\ (/\ last'.op = "profile_update"
         /\ last'.caller = last'.target
         /\ last'.callerRole = ROLE_USER
         /\ last'.value = ROLE_ADMIN) =>
          (~last'.ok /\ profiles' = profiles)
     /\ (/\ last'.op = "profile_update"
         /\ last'.caller # last'.target
         /\ last'.callerRole = ROLE_ADMIN) =>
          (last'.ok /\ StoredRole(profiles', last'.target) = last'.value)
     /\ (/\ last.op = "profile_update"
         /\ last.ok
         /\ last.caller # last.target
         /\ last.value = ROLE_ADMIN
         /\ last'.op = "profile_select"
         /\ last'.caller = last.target
         /\ last'.target = last.target) =>
          last'.seen = ROLE_ADMIN]_vars

C2_Witness ==
  /\ last.op = "profile_select"
  /\ last.caller = last.target
  /\ last.caller # InitialAdmin
  /\ last.seen = ROLE_ADMIN

\* C3 as claimed: the role of a profile row changes only in a step of a caller
\* that is an admin at that step and that is not the owner of the row.
C3_RoleNeverChangedByOwner ==
  [][\A t \in Ids :
       RoleChanged(t) =>
         /\ last'.op = "profile_update"
         /\ is_admin(profiles, last'.caller)
         /\ last'.caller # t]_vars

\* C3 as amended: the role of a profile row changes only in a profile update
\* by a caller that is an admin at that step; when that caller is the owner
\* of the row, the change is its own demotion to 'user'.
C3_RoleChangedByAdminOnly ==
  [][\A t \in Ids :
       RoleChanged(t) =>
         /\ last'.op = "profile_update"
         /\ last'.target = t
         /\ is_admin(profiles, last'.caller)
         /\ last'.caller = t => StoredRole(profiles', t) = ROLE_USER]_vars

C3_Witness ==
  /\ last.op = "profile_update"
  /\ last.ok
  /\ last.caller # last.target
  /\ last.old = ROLE_USER
  /\ last.value = ROLE_ADMIN
  /\ StoredRole(profiles, last.target) = ROLE_ADMIN

\* C9: sign-up leaves exactly the row (id, 'user') for the new identity; the
\* client's upsert for an identity that has a row leaves every profile row as
\* it was, whatever its role; after a served upsert the identity has exactly
\* one row; and running the trigger function or the upsert once more on the
\* rows of any reachable state changes nothing.
C9_ProvisioningIdempotent ==
  [][/\ last'.op = "create_identity" =>
          ProfileOf(profiles', last'.target) = {[id |-> last'.target, role |-> ROLE_USER]}
     /\ (last'.op = "ensure_profile" /\ HasProfile(profiles, last'.target)) =>
          profiles' = profiles
     /\ (last'.op = "ensure_profile" /\ last'.ok) =>
          RowCount(profiles', last'.target) = 1
     /\ \A id \in Ids :
          HasProfile(profiles', id) =>
            /\ handle_new_user(profiles', id) = profiles'
            /\ UpsertRows(profiles', id) = profiles'
     /\ \A id \in Ids :
          /\ handle_new_user(handle_new_user(profiles', id), id) = handle_new_user(profiles', id)
          /\ UpsertRows(handle_new_user(profiles', id), id) = handle_new_user(profiles', id)
          /\ handle_new_user(UpsertRows(profiles', id), id) = UpsertRows(profiles', id)]_vars

C9_Witness ==
  /\ last.op = "ensure_profile"
  /\ last.ok
  /\ last.caller # InitialAdmin
  /\ last.old = ROLE_ADMIN
  /\ ProfileOf(profiles, last.target) = {[id |-> last.target, role |-> ROLE_ADMIN]}

\* C10: in every reachable state of the interleaved profile creations (the
\* trigger, the upsert after sign-up, getUserRole in several sessions) an
\* identity has at most one profile row.
C10_AtMostOneProfileRow == \A id \in Ids : RowCount(profiles, id) <= 1

\* Two sessions saw no row for the same user; one has created the row and the
\* other is about to run its upsert.
C10_Witness ==
  /\ last.op = "ensure_profile"
  /\ last.ok
  /\ last.old = NoRole
  /\ \E s \in SessionIds :
       /\ sessions[s].pc = "ensure"
       /\ sessions[s].user = last.target
  /\ RowCount(profiles, last.target) = 1

ProductRows == [id : ProductIds, category : CategoryNames]
OrderRows == [id : OrderIds, user_id : Ids, status : StatusSet]
ProfileRows == [id : Ids, role : Roles]
ObjectRows == [bucket_id : Buckets, name : ObjectNames]

CatalogWrites ==
  {"product_insert", "product_update", "product_delete",
   "category_insert", "category_update", "category_delete"}

ServiceOps == {"none", "create_identity", "remove_identity"}

\* C4: insert, update and delete on products and on categories are allowed by
\* the policies exactly to the callers whose stored role is 'admin': denied to
\* role 'user', to a caller without a profile row and to the anonymous caller,
\* for every row; and a served write on products or categories was allowed
\* exactly when its caller's stored role was 'admin', and took effect only then.
C4_CatalogWritesAdminOnly ==
  /\ \A c \in Callers :
       LET admin == StoredRole(profiles, c) = ROLE_ADMIN IN
       /\ \A row \in ProductRows :
            /\ products_insert_admin_only(profiles, c, row) = admin
            /\ products_update_admin_only(profiles, c, row) = admin
            /\ products_delete_admin_only(profiles, c, row) = admin
       /\ \A name \in CategoryNames :
            /\ categories_insert_admin_only(profiles, c, name) = admin
            /\ categories_update_admin_only(profiles, c, name) = admin
            /\ categories_delete_admin_only(profiles, c, name) = admin
  /\ last.op \in CatalogWrites =>
       /\ last.allowed = (last.callerRole = ROLE_ADMIN)
       /\ last.ok => last.allowed

C4_Witness ==
  /\ last.op = "product_delete"
  /\ last.callerRole = ROLE_USER
  /\ ~last.ok
  /\ products # {}

\* C5: the policies deny the anonymous caller every operation on profiles,
\* products, categories, orders and storage objects, except select of an
\* object of the product-images bucket, which they allow; select on products
\* is allowed to every authenticated caller, whatever its role, and denied to
\* the anonymous caller.
C5_AnonymousOnlyReadsImages ==
  /\ \A row \in ProfileRows :
       /\ ~profiles_select_self_or_admin(profiles, Anon, row)
       /\ ~profiles_insert_self_user_or_admin(profiles, Anon, row)
       /\ ~profiles_update_using(profiles, Anon, row)
       /\ ~profiles_update_check(profiles, Anon, row)
       /\ ~profiles_delete_admin_only(profiles, Anon, row)
  /\ \A row \in ProductRows :
       /\ ~products_select_authenticated(profiles, Anon, row)
       /\ ~products_insert_admin_only(profiles, Anon, row)
       /\ ~products_update_admin_only(profiles, Anon, row)
       /\ ~products_delete_admin_only(profiles, Anon, row)
       /\ \A c \in Ids : products_select_authenticated(profiles, c, row)
  /\ \A name \in CategoryNames :
       /\ ~categories_select_authenticated(profiles, Anon, name)
       /\ ~categories_insert_admin_only(profiles, Anon, name)
       /\ ~categories_update_admin_only(profiles, Anon, name)
       /\ ~categories_delete_admin_only(profiles, Anon, name)
  /\ \A row \in OrderRows :
       /\ ~orders_select_own_or_admin(profiles, Anon, row)
       /\ ~orders_insert_own_or_admin(profiles, Anon, row)
       /\ ~orders_update_admin_only(profiles, Anon, row)
       /\ ~orders_delete_admin_only(profiles, Anon, row)
  /\ \A obj \in ObjectRows :
       /\ product_images_select_public(profiles, Anon, obj)
            = (obj.bucket_id = ProductImagesBucket)
       /\ ~product_images_admin_insert(profiles, Anon, obj)
       /\ ~product_images_admin_update(profiles, Anon, obj)
       /\ ~product_images_admin_delete(profiles, Anon, obj)
  /\ (last.op \notin ServiceOps /\ last.caller = Anon /\ last.allowed) =>
       (last.op = "object_select" /\ last.value = ProductImagesBucket)
  /\ (last.op = "object_select" /\ last.value = ProductImagesBucket) => last.allowed
  /\ last.op = "product_select" => (last.ok = (last.caller # Anon))

\* The anonymous caller has read an uploaded product image.
C5_Witness ==
  /\ last.op = "object_select"
  /\ last.caller = Anon
  /\ last.value = ProductImagesBucket
  /\ last.ok

\* C6: an order is visible to its owner and to every admin, and to no other
\* caller whose role is 'user'.
C6_OrderReadIsolation ==
  /\ \A o \in orders, c \in Ids :
       /\ c = o.user_id => orders_select_own_or_admin(profiles, c, o)
       /\ StoredRole(profiles, c) = ROLE_ADMIN => orders_select_own_or_admin(profiles, c, o)
       /\ (c # o.user_id /\ StoredRole(profiles, c) = ROLE_USER) =>
            ~orders_select_own_or_admin(profiles, c, o)
  /\ last.op = "order_select" =>
       /\ last.ok = (last.caller # Anon
                     /\ (last.caller = last.target \/ last.callerRole = ROLE_ADMIN))
       /\ last.ok => last.seen = last.old
       /\ ~last.ok => last.seen = "none"

C6_Witness ==
  /\ last.op = "order_select"
  /\ last.callerRole = ROLE_USER
  /\ last.caller # last.target
  /\ ~last.ok
  /\ last.seen = "none"

CreatedOrders == {o \in orders' : OrderOf(orders, o.id) = {}}

\* C7: the insert policy of orders passes exactly when the caller is
\* authenticated and the row's user_id is the caller or the caller is an
\* admin; every order row that appears was inserted by its owner or by a
\* caller that is an admin at that step; an admin's insert passes the policy
\* for every user_id and creates the row whenever that identity has a profile
\* row (the foreign key of user_id).
C7_OrderInsertOwnOrAdmin ==
  [][/\ \A o \in CreatedOrders :
          /\ last'.op = "order_insert"
          /\ last'.caller # Anon
          /\ (o.user_id = last'.caller \/ is_admin(profiles, last'.caller))
     /\ last'.op = "order_insert" =>
          /\ last'.allowed = (/\ last'.caller # Anon
                              /\ (\/ last'.target = last'.caller
                                  \/ last'.callerRole = ROLE_ADMIN))
          /\ (last'.callerRole = ROLE_ADMIN /\ HasProfile(profiles, last'.target)) =>
               /\ last'.ok
               /\ \E o \in CreatedOrders : o.user_id = last'.target]_vars

\* An admin has created an order for another identity.
C7_Witness ==
  /\ last.op = "order_insert"
  /\ last.callerRole = ROLE_ADMIN
  /\ last.caller # last.target
  /\ last.ok
  /\ \E o \in orders : o.user_id = last.target

\* C8: an order row is changed or removed only by an order update, an order
\* delete or a profile delete of a caller that is an admin at that step, or by
\* the cascade of the removal of its owner from auth.users; update and delete
\* on orders by a caller that is not an admin, the owner included, are denied
\* and leave the orders as they were.
C8_OrderChangedByAdminOnly ==
  [][/\ \A o \in orders :
          o \notin orders' =>
            \/ (last'.op = "remove_identity" /\ last'.target = o.user_id)
            \/ /\ last'.op \in {"order_update", "order_delete", "profile_delete"}
               /\ last'.caller # Anon
               /\ is_admin(profiles, last'.caller)
     /\ (last'.op \in {"order_update", "order_delete"} /\ last'.callerRole # ROLE_ADMIN) =>
          (~last'.ok /\ orders' = orders)]_vars

\* The owner of an order, a 'user', was denied the update of its own order.
C8_Witness ==
  /\ last.op = "order_update"
  /\ last.caller = last.target
  /\ last.callerRole = ROLE_USER
  /\ ~last.ok
  /\ \E o \in orders : o.user_id = last.caller /\ o.status = last.old

\* C11: the insert policy of profiles passes for a caller that is not an
\* admin exactly when the row's id is the caller and its role is 'user', and
\* passes for an admin with every id and every role; a served insert of a
\* caller that is not an admin was allowed only for its own id with role
\* 'user', and the row it created has role 'user'; an admin's insert was
\* allowed whatever id and role it submitted.
C11_ProfileInsertSelfUserOrAdmin ==
  /\ \A c \in Callers, row \in ProfileRows :
       profiles_insert_self_user_or_admin(profiles, c, row)
         = IF StoredRole(profiles, c) = ROLE_ADMIN
             THEN TRUE
             ELSE c # Anon /\ row.id = c /\ row.role = ROLE_USER
  /\ last.op = "profile_insert" =>
       /\ last.callerRole = ROLE_ADMIN => last.allowed
       /\ last.callerRole # ROLE_ADMIN =>
            /\ last.allowed = (/\ last.caller # Anon
                               /\ last.target = last.caller
                               /\ last.value = ROLE_USER)
            /\ last.ok => StoredRole(profiles, last.target) = ROLE_USER
       /\ last.ok => ProfileOf(profiles, last.target) = {[id |-> last.target, role |-> last.value]}
       /\ ~last.ok => StoredRole(profiles, last.target) = last.old

\* An identity without a profile row asked for its own row with role 'admin'
\* and was denied.
C11_Witness ==
  /\ last.op = "profile_insert"
  /\ last.caller # Anon
  /\ last.caller = last.target
  /\ last.callerRole = NoRole
  /\ last.value = ROLE_ADMIN
  /\ ~last.allowed
  /\ ~HasProfile(profiles, last.target)

\* C12: the select policy of profiles passes exactly when the row's id is the
\* caller or the caller is an admin, and the delete policy exactly when the
\* caller is an admin; a served select returned the row exactly in those
\* cases, and a served delete removed the row exactly when its caller was an
\* admin: a caller that is not an admin does not delete its own row.
C12_ProfileSelectAndDelete ==
  /\ \A c \in Callers, row \in ProfileRows :
       /\ profiles_select_self_or_admin(profiles, c, row)
            = (c # Anon /\ (row.id = c \/ StoredRole(profiles, c) = ROLE_ADMIN))
       /\ profiles_delete_admin_only(profiles, c, row)
            = (StoredRole(profiles, c) = ROLE_ADMIN)
  /\ last.op = "profile_select" =>
       /\ last.old # NoRole =>
            last.ok = (/\ last.caller # Anon
                       /\ (last.caller = last.target \/ last.callerRole = ROLE_ADMIN))
       /\ last.ok => last.seen = last.old
       /\ ~last.ok => last.seen = NoRole
  /\ last.op = "profile_delete" =>
       /\ last.ok = (last.callerRole = ROLE_ADMIN)
       /\ last.ok => ~HasProfile(profiles, last.target)
       /\ ~last.ok => StoredRole(profiles, last.target) = last.old

\* A 'user' asked to delete its own profile row and the row is still there.
C12_Witness ==
  /\ last.op = "profile_delete"
  /\ last.caller = last.target
  /\ last.callerRole = ROLE_USER
  /\ ~last.ok
  /\ HasProfile(profiles, last.target)

ObjectWrites == {"object_insert", "object_update", "object_delete"}

ObjectOps == ObjectWrites \cup {"object_select"}

\* C13: insert, update and delete on storage.objects pass the policies exactly
\* when the caller is an admin and the object is in the product-images bucket;
\* for an object of any other bucket no policy passes, select included and
\* admins included; no object is ever stored outside the product-images bucket.
C13_StorageBucketScoped ==
  /\ \A c \in Callers, obj \in ObjectRows :
       LET scoped == /\ StoredRole(profiles, c) = ROLE_ADMIN
                     /\ obj.bucket_id = ProductImagesBucket
       IN
       /\ product_images_admin_insert(profiles, c, obj) = scoped
       /\ product_images_admin_update(profiles, c, obj) = scoped
       /\ product_images_admin_delete(profiles, c, obj) = scoped
       /\ obj.bucket_id # ProductImagesBucket =>
            ~product_images_select_public(profiles, c, obj)
  /\ last.op \in ObjectWrites =>
       /\ last.allowed = (/\ last.callerRole = ROLE_ADMIN
                          /\ last.value = ProductImagesBucket)
       /\ last.ok => last.allowed
  /\ (last.op \in ObjectOps /\ last.value # ProductImagesBucket) =>
       (~last.allowed /\ ~last.ok)
  /\ \A obj \in objects : obj.bucket_id = ProductImagesBucket

\* An admin's upload into another bucket was denied.
C13_Witness ==
  /\ last.op = "object_insert"
  /\ last.callerRole = ROLE_ADMIN
  /\ last.value # ProductImagesBucket
  /\ ~last.allowed
  /\ objects = {}

\* C14: whatever bucket name the deployment configured, an admin's upload
\* into that bucket is allowed by the storage policies, and select of an
\* object of that bucket is allowed to every caller.
C14_PoliciesFollowConfiguredBucket ==
  /\ (/\ last.op = "object_insert"
      /\ last.callerRole = ROLE_ADMIN
      /\ \E env \in EnvBuckets : last.value = PRODUCT_IMAGE_BUCKET(env)) =>
       last.allowed
  /\ (/\ last.op = "object_select"
      /\ \E env \in EnvBuckets : last.value = PRODUCT_IMAGE_BUCKET(env)) =>
       last.allowed

AdminGatedOps == CatalogWrites \cup ObjectWrites \cup {"order_update", "order_delete", "profile_delete"}

\* C15: for the anonymous caller and for every caller without a profile row
\* the admin predicate is false in both its forms, and for every caller whose
\* stored role is not 'admin' every admin-only policy denies, on every row; a
\* served admin-only request of such a caller was denied and changed nothing.
C15_FailClosed ==
  /\ \A c \in Callers :
       StoredRole(profiles, c) # ROLE_ADMIN =>
         /\ ~is_admin(profiles, c)
         /\ ~InlineAdmin(profiles, c)
         /\ \A row \in ProfileRows : ~profiles_delete_admin_only(profiles, c, row)
         /\ \A row \in ProductRows :
              /\ ~products_insert_admin_only(profiles, c, row)
              /\ ~products_update_admin_only(profiles, c, row)
              /\ ~products_delete_admin_only(profiles, c, row)
         /\ \A name \in CategoryNames :
              /\ ~categories_insert_admin_only(profiles, c, name)
              /\ ~categories_update_admin_only(profiles, c, name)
              /\ ~categories_delete_admin_only(profiles, c, name)
         /\ \A row \in OrderRows :
              /\ ~orders_update_admin_only(profiles, c, row)
              /\ ~orders_delete_admin_only(profiles, c, row)
         /\ \A obj \in ObjectRows :
              /\ ~product_images_admin_insert(profiles, c, obj)
              /\ ~product_images_admin_update(profiles, c, obj)
              /\ ~product_images_admin_delete(profiles, c, obj)
  /\ StoredRole(profiles, Anon) = NoRole
  /\ (last.op \in AdminGatedOps /\ last.callerRole # ROLE_ADMIN) =>
       (~last.allowed /\ ~last.ok)

\* An identity whose profile row is gone asked for an admin-only write.
C15_Witness ==
  /\ last.op \in AdminGatedOps
  /\ last.caller # Anon
  /\ last.callerRole = NoRole
  /\ ~HasProfile(profiles, last.caller)
  /\ ~last.allowed

\* C16: an admin-only request that comes right after a profile update of its
\* caller's row is allowed exactly when that update stored 'admin'; right
\* after the caller's profile row was deleted, or its identity removed, it is
\* denied.
C16_RoleReadAtEveryCall ==
  [][/\ (/\ last.op = "profile_update"
         /\ last.ok
         /\ last'.op \in AdminGatedOps
         /\ last'.caller = last.target) =>
          last'.allowed = (last.value = ROLE_ADMIN)
     /\ (/\ last.op \in {"profile_delete", "remove_identity"}
         /\ last.ok
         /\ last'.op \in AdminGatedOps
         /\ last'.caller = last.target) =>
          ~last'.allowed]_vars

\* The admin of the setup, demoted to 'user', was denied a category insert.
C16_Witness ==
  /\ last.op = "category_insert"
  /\ last.caller = InitialAdmin
  /\ last.callerRole = ROLE_USER
  /\ ~last.allowed

\* C20: in every state of a browser the Admin button and the Admin Portal are
\* rendered only when the stored profile role of the signed-in user is
\* 'admin', and a mounted Storefront is never on the admin tab without
\* isAdmin.
C20_AdminUiOnlyForStoredAdmins ==
  \A s \in SessionIds :
    /\ AdminTabVisible(s) => StoredRole(profiles, app[s].user) = ROLE_ADMIN
    /\ AdminPortalVisible(s) => StoredRole(profiles, app[s].user) = ROLE_ADMIN
    /\ Mounted(s) => ~(front[s].activeTab = "admin" /\ ~isAdmin(app[s]))

\* C17: a removeCategory on a category that a product of the client's product
\* list references sets the message "Cannot delete a category that is used by
\* existing products.", issues no request (the store's categories and the
\* last served request are as before), and leaves the client's category list,
\* selected category and new-product category as they were.
C17_RemoveReferencedCategoryRejected ==
  [][\A s \in SessionIds, name \in CategoryNames :
       (/\ removeCategory(s, name)
        /\ \E p \in front[s].products : p.category = name) =>
         /\ front'[s].adminMessage = MsgCategoryInUse
         /\ last' = last
         /\ categories' = categories
         /\ front'[s].categories = front[s].categories
         /\ name \in front'[s].categories
         /\ front'[s].selectedCategory = front[s].selectedCategory
         /\ front'[s].newProductCategory = front[s].newProductCategory]_vars

\* The admin, with "Bags" selected and a "Bags" product in the list, was
\* refused the removal of "Bags".
C17_Witness ==
  \E s \in SessionIds :
    /\ front[s].adminMessage = MsgCategoryInUse
    /\ front[s].selectedCategory = "Bags"
    /\ front[s].newProductCategory = "Bags"
    /\ "Bags" \in front[s].categories
    /\ "Bags" \in categories
    /\ \E p \in front[s].products : p.category = "Bags"

\* C18: a category row leaves the store only in a step in which no product of
\* the store references its name.
C18_CategoryDeletedOnlyWhenUnreferenced ==
  [][\A name \in categories \ categories' :
       ~\E p \in products : p.category = name]_vars

\* C19: no two stored categories have names that are equal ignoring case, no
\* stored name is empty after trimming, and an addCategory whose trimmed name
\* equals a stored name ignoring case reports "Category already exists." and
\* leaves the store's categories and the client's category list unchanged.
C19_CategoryNamesUniqueIgnoringCase ==
  /\ [](/\ \A a \in categories, b \in categories : ToLower(a) = ToLower(b) => a = b
        /\ \A a \in categories : Trim(a) # "")
  /\ [][\A s \in SessionIds, typed \in TypedNames :
          (/\ addCategory(s, typed)
           /\ Trim(typed) # ""
           /\ \E cat \in categories : ToLower(cat) = ToLower(Trim(typed))) =>
            /\ front'[s].adminMessage = MsgCategoryExists
            /\ categories' = categories
            /\ front'[s].categories = front[s].categories]_vars

\* C21: every stored order, and every order of a client's list, has a status
\* of the list; an order update by an admin with a status of the list is
\* served whatever the status of the order was, and the order then has that
\* status, in the store and, when it came from updateOrderStatus, in the
\* client's list; an insert or update with a status outside the list is
\* rejected and leaves the orders as they were, and updateOrderStatus with
\* such a status changes nothing.
C21_OrderStatusSetOnly ==
  /\ [](\A o \in orders : o.status \in StatusSet)
  /\ [](\A s \in ClientIds : \A o \in front[s].orders : o.status \in StatusSet)
  /\ [][/\ (/\ last' # last
            /\ last'.op = "order_update"
            /\ last'.callerRole = ROLE_ADMIN
            /\ last'.value \in StatusSet) =>
             /\ last'.ok
             /\ \E o \in orders : \E n \in orders' :
                  /\ o.status = last'.old
                  /\ n = [o EXCEPT !.status = last'.value]
                  /\ orders' = (orders \ {o}) \cup {n}
        /\ (/\ last'.op \in {"order_update", "order_insert"}
            /\ last'.value \notin StatusSet) =>
             (~last'.ok /\ orders' = orders)
        /\ \A s \in ClientIds, oid \in OrderIds :
             /\ \A status \in StatusSet :
                  (updateOrderStatus(s, oid, status) /\ OrderOf(orders, oid) # {}) =>
                    /\ \E n \in orders' : n.id = oid /\ n.status = status
                    /\ \E n \in front'[s].orders : n.id = oid /\ n.status = status
             /\ \A status \in AnyStatuses \ StatusSet :
                  updateOrderStatus(s, oid, status) => UNCHANGED vars]_vars

\* The admin has moved an order out of 'Cancelled' from the Admin Portal.
C21_Witness ==
  /\ last.op = "order_update"
  /\ last.ok
  /\ last.old = "Cancelled"
  /\ last.value = "Placed"
  /\ \E o \in orders : o.status = "Placed"
  /\ \E s \in ClientIds :
       /\ front[s].adminMessage = MsgOrderStatusUpdated
       /\ \E o \in front[s].orders : o.status = "Placed"

ProfileRemoved(id) == HasProfile(profiles, id) /\ ~HasProfile(profiles', id)

\* C23 as claimed: a profile row disappears only in the removal of its
\* identity from auth.users.
C23_ProfileRemovedOnlyByCascade ==
  [][\A id \in Ids :
       ProfileRemoved(id) =>
         (last'.op = "remove_identity" /\ last'.target = id)]_vars

\* C23 as amended: a profile row disappears only in the removal of its
\* identity from auth.users or in a profile delete of a caller that is an
\* admin at that step; a delete by any other caller, the owner included,
\* leaves the profiles as they were.
C23_ProfileRemovedByCascadeOrAdmin ==
  [][/\ \A id \in Ids :
          ProfileRemoved(id) =>
            \/ (last'.op = "remove_identity" /\ last'.target = id)
            \/ /\ last'.op = "profile_delete"
               /\ last'.target = id
               /\ last'.caller # Anon
               /\ is_admin(profiles, last'.caller)
     /\ (last'.op = "profile_delete" /\ ~is_admin(profiles, last'.caller)) =>
          profiles' = profiles]_vars

\* An admin has deleted the profile row of another identity, which still is
\* in auth.users.
C23_Witness ==
  /\ last.op = "profile_delete"
  /\ last.ok
  /\ last.caller # last.target
  /\ last.target \in users
  /\ ~HasProfile(profiles, last.target)

Admins(ps) == {id \in Ids : is_admin(ps, id)}

\* C25: a step from a state without an admin leads to a state without an
\* admin, and an identity becomes an admin only in a step of a caller that is
\* an admin before the step.
C25_NoEscalationWithoutAdmin ==
  [][/\ Admins(profiles) = {} => Admins(profiles') = {}
     /\ Admins(profiles') \ Admins(profiles) # {} =>
          /\ last'.caller # Anon
          /\ last'.caller \in Admins(profiles)]_vars

\* No admin is left, and an identity without a profile row was denied the
\* insert of its own row with role 'admin'.
C25_Witness ==
  /\ Admins(profiles) = {}
  /\ users # {}
  /\ last.op = "profile_insert"
  /\ last.caller = last.target
  /\ last.value = ROLE_ADMIN
  /\ ~HasProfile(profiles, last.caller)
  /\ ~last.ok

\* C27: in every reachable state and for every caller the inline subquery,
\* evaluated on the profile rows the caller may select, and is_admin() agree.
C27_AdminChecksAgree ==
  \A c \in Callers : InlineAdmin(profiles, c) = is_admin(profiles, c)

\* An identity other than the setup's admin is an admin in both forms, next
\* to a 'user'.
C27_Witness ==
  /\ \E c \in Ids \ {InitialAdmin} : InlineAdmin(profiles, c) /\ is_admin(profiles, c)
  /\ \E c \in Ids : StoredRole(profiles, c) = ROLE_USER /\ ~InlineAdmin(profiles, c)

\* C28: every stored order is owned by an identity with a profile row; an
\* order insert for an identity without a profile row is rejected and leaves
\* the orders as they were; and in the step in which a profile row goes, by an
\* admin's delete or by the removal of the identity, every order of its owner
\* goes as well.
C28_OrdersReferenceProfiles ==
  /\ [](\A o \in orders : HasProfile(profiles, o.user_id))
  /\ [][/\ (last'.op = "order_insert" /\ ~HasProfile(profiles, last'.target)) =>
             (~last'.ok /\ orders' = orders)
        /\ \A id \in Ids :
             ProfileRemoved(id) => \A o \in orders' : o.user_id # id]_vars

\* An identity whose profile row is gone was allowed by the policy to insert
\* its own order, and the foreign key rejected it.
C28_Witness ==
  /\ last.op = "order_insert"
  /\ last.caller = last.target
  /\ last.allowed
  /\ ~last.ok
  /\ last.value \in StatusSet
  /\ ~HasProfile(profiles, last.target)

\* The values a role column could hand to getUserRole ("" for none).
DataRoles == {"", "user", "User", "admin", "Admin", "ADMIN"}

LookupOpen(u, pc) ==
  \E s \in ClientIds : \E l \in app[s].lookups :
    l.user = u /\ l.pc = pc /\ l.race = "pending"

C24_LookupResult ==
  /\ \A s \in ClientIds : \A l \in app[s].lookups :
       /\ l.race \in {"pending", ROLE_USER, ROLE_ADMIN}
       /\ l.race = "pending" => l.pc \in {"select", "ensure"}
       /\ l.timedOut => l.race = ROLE_USER
       /\ l.seen = "error" => l.race = ROLE_USER
       /\ (l.seen = NoRole /\ l.pc = "done") => l.race = ROLE_USER
       /\ l.race = ROLE_ADMIN => (~l.timedOut /\ l.seen \in {"admin", "Admin", "ADMIN"})
  /\ \A r \in DataRoles :
       RoleOfData(r) = IF r \in {"admin", "Admin", "ADMIN"} THEN ROLE_ADMIN ELSE ROLE_USER
  /\ \A client \in BOOLEAN, id \in Callers :
       (~client \/ id = Anon) => getUserRoleEntry(client, id) = ROLE_USER

\* C24: a call of getUserRoleWithTimeout whose race is open does not stay
\* where it is (it goes on from the select to ensureUserProfile or settles,
\* and from ensureUserProfile it settles), and it settles with 'user' or
\* 'admin'; it
\* settles with 'user' when the timer fired first, when the select failed,
\* when there is no client or no user id, and when no row was seen (after
\* ensureUserProfile); it settles with 'admin' only when the select came back
\* before the timer with a role equal to 'admin' ignoring case.
C24_RoleLookupFallsBackToUser ==
  /\ []C24_LookupResult
  /\ \A u \in LookupUsers, pc \in LookupPositions : LookupOpen(u, pc) ~> ~LookupOpen(u, pc)

\* The timer settled a lookup with 'user', and the select came back afterwards
\* with the stored role 'admin'.
C24_Witness ==
  \E s \in ClientIds : \E l \in app[s].lookups :
    l.timedOut /\ l.seen = ROLE_ADMIN /\ l.race = ROLE_USER

\* C26: userRole becomes 'admin' only through a role lookup made for the
\* current user, and it is never 'admin' while no user is signed in or the
\* stored role of the current user is 'user'.
C26_RoleBelongsToCurrentSession ==
  /\ [](\A s \in ClientIds :
          app[s].userRole = ROLE_ADMIN =>
            (app[s].user # Anon /\ StoredRole(profiles, app[s].user) # ROLE_USER))
  /\ [][\A s \in ClientIds :
          (app[s].userRole # ROLE_ADMIN /\ app'[s].userRole = ROLE_ADMIN) =>
            \E l \in app[s].lookups : l.user = app'[s].user /\ l.race = ROLE_ADMIN]_vars

\* The sum of price times quantity over the ids of the cart that are in the
\* product list, and the sum of their quantities.
CartTotal(f) ==
  SumOver(ProductIds,
          [i \in ProductIds |->
             IF \E p \in f.products : p.id = i
               THEN (CHOOSE p \in f.products : p.id = i).price * f.cartItems[i]
               ELSE 0])

CartCount(f) ==
  SumOver(ProductIds,
          [i \in ProductIds |-> IF \E p \in f.products : p.id = i THEN f.cartItems[i] ELSE 0])

CartEmptied(f) == \A i \in ProductIds : f.cartItems[i] = 0

\* C29: placeOrder without a cart row changes nothing; with one, a served
\* insert adds exactly one order to the client's list, with status 'Placed',
\* the current user as owner, the sum of price times quantity as total and
\* the sum of the quantities as item count, empties the cart and opens the
\* orders tab, and a rejected insert leaves cart and order list as they were.
\* increaseQty adds one to the quantity of its product, decreaseQty takes one
\* off unless the quantity is zero, neither touches another product, no
\* quantity is below zero, and the cart changes in no other step but the
\* unmount of Storefront.
C29_PlaceOrderAllOrNothing ==
  /\ [](\A s \in ClientIds, i \in ProductIds : cartQtyById(front[s], i) >= 0)
  /\ [][\A s \in ClientIds :
          LET f == front[s]
              g == front'[s]
          IN
          /\ (placeOrder(s) /\ CartCount(f) = 0) => UNCHANGED vars
          /\ (placeOrder(s) /\ CartCount(f) > 0 /\ last'.ok) =>
               /\ \E o \in g.orders \ f.orders :
                    /\ g.orders = f.orders \cup {o}
                    /\ o.status = "Placed"
                    /\ o.userId = app[s].user
                    /\ o.total = CartTotal(f)
                    /\ o.items = CartCount(f)
                    /\ \E row \in orders' \ orders :
                         orders' = orders \cup {row} /\ normalizeOrder(row) = o
               /\ CartEmptied(g)
               /\ g.activeTab = "orders"
          /\ (placeOrder(s) /\ CartCount(f) > 0 /\ ~last'.ok) =>
               /\ g.cartItems = f.cartItems
               /\ g.orders = f.orders
               /\ g.activeTab = f.activeTab
               /\ orders' = orders
          /\ \A pid \in ProductIds :
               /\ increaseQty(s, pid) =>
                    g.cartItems = [f.cartItems EXCEPT ![pid] = @ + 1]
               /\ decreaseQty(s, pid) =>
                    g.cartItems = [f.cartItems EXCEPT ![pid] = IF @ = 0 THEN 0 ELSE @ - 1]
          /\ g.cartItems # f.cartItems =>
               \/ placeOrder(s)
               \/ handleLogout(s)
               \/ \E pid \in ProductIds : increaseQty(s, pid) \/ decreaseQty(s, pid)]_vars

\* An order for two units is in the client's list, the cart is empty and the
\* orders tab is open.
C29_Witness ==
  \E s \in ClientIds :
    /\ front[s].activeTab = "orders"
    /\ front[s].orderMessage = MsgOrderPlaced
    /\ CartEmptied(front[s])
    /\ \E o \in front[s].orders : o.items = 2 /\ o.total = 20 /\ o.status = "Placed"

\* The form fails the validation of addProduct: an empty name, category or
\* description, or a price that is not a finite number greater than 0.
FormInvalid(f) ==
  \/ Trim(f.newProductName) = ""
  \/ f.newProductCategory = ""
  \/ Trim(f.newProductDescription) = ""
  \/ ~Number(f.newProductPrice).finite
  \/ Number(f.newProductPrice).value <= 0

FormFields(f) ==
  <<f.newProductName, f.newProductCategory, f.newProductPrice, f.newProductDescription,
    f.newProductImageFile>>

\* C30: addProduct on an invalid form sends no request, and nothing is
\* uploaded or inserted; on a valid form with an image chosen its first
\* request is the upload, no product is inserted in that step, and the call
\* goes on to its insert exactly when the upload was served; the insert of a
\* call with an image finds the image uploaded; a product appears in the
\* store only through the insert of a call without an image or the insert
\* that follows a served upload; and a rejected insert leaves the client's
\* product list, the form fields, the stored products and the uploaded image
\* as they were.
C30_AddProductValidateUploadInsert ==
  [][\A s \in ClientIds :
       LET f == front[s]
           g == front'[s]
           submitted == \E env \in EnvBuckets : addProduct(s, env)
       IN
       /\ (submitted /\ FormInvalid(f)) =>
            /\ last' = last
            /\ objects' = objects
            /\ products' = products
            /\ ~g.pendingProduct.active
       /\ (submitted /\ ~FormInvalid(f) /\ f.newProductImageFile # "") =>
            /\ last'.op = "object_insert"
            /\ products' = products
            /\ g.products = f.products
            /\ g.pendingProduct.active = last'.ok
            /\ ~last'.ok => objects' = objects
       /\ addProductInsert(s) =>
            \E o \in objects : o.name = f.pendingProduct.image
       /\ products' # products =>
            \/ addProductInsert(s)
            \/ submitted /\ f.newProductImageFile = ""
       /\ ((submitted \/ addProductInsert(s)) /\ last'.op = "product_insert" /\ ~last'.ok) =>
            /\ g.products = f.products
            /\ FormFields(g) = FormFields(f)
            /\ products' = products
            /\ objects' = objects]_vars

\* The image of a call was uploaded, its insert was rejected, and the form
\* still holds what was typed.
C30_Witness ==
  \E s \in ClientIds :
    /\ last.op = "product_insert"
    /\ ~last.ok
    /\ objects # {}
    /\ products = {}
    /\ front[s].adminMessage = MsgProductSaveFailed
    /\ front[s].newProductImageFile = "cap.png"
    /\ front[s].newProductName = "Cap"

\* The messages the write handlers show for a rejected request.
ErrorMessages == {MsgCategorySaveFailed, MsgUploadFailed, MsgProductSaveFailed, MsgOrderFailed}

\* A step of one of the write handlers of browser s.
WriteHandlerStep(s) ==
  \/ \E typed \in TypedNames : addCategory(s, typed)
  \/ \E name \in CategoryNames : removeCategory(s, name)
  \/ \E env \in EnvBuckets : addProduct(s, env)
  \/ addProductInsert(s)
  \/ \E pid \in ProductIds : removeProduct(s, pid)
  \/ \E oid \in OrderIds, status \in StatusSet : updateOrderStatus(s, oid, status)
  \/ placeOrder(s)

\* C22: when the request of a step of addCategory, removeCategory, addProduct,
\* removeProduct, updateOrderStatus or placeOrder is rejected by the store,
\* the handler shows an error message, has no request left to send, and the
\* client's categories, products, orders and cart are as they were.
C22_RejectedWriteSurfaced ==
  [][\A s \in ClientIds :
       LET f == front[s]
           g == front'[s]
       IN
       (WriteHandlerStep(s) /\ last' # last /\ ~last'.ok) =>
         /\ \/ g.adminMessage \in ErrorMessages
            \/ g.orderMessage \in ErrorMessages
         /\ ~g.pendingProduct.active
         /\ g.categories = f.categories
         /\ g.products = f.products
         /\ g.orders = f.orders
         /\ g.cartItems = f.cartItems]_vars

====
